---- MODULE Spec2Model ----
(***************************************************************************)
(* Model of the terminal emulation and selection core of sheesh-rs         *)
(* (src/src/tabs/terminal.rs): the escape/style parser, the output pump    *)
(* (reader thread), the scrollback buffer, the visual row mapper and the   *)
(* selection engine.                                                       *)
(*                                                                         *)
(* Text is modelled as it is in the program: a chunk read from the pty is  *)
(* a sequence of bytes (0..255), a String is a sequence of Unicode scalar  *)
(* values (code points), and byte offsets into a String count the bytes    *)
(* of its UTF-8 encoding.                                                  *)
(***************************************************************************)
EXTENDS Integers, Sequences, FiniteSets, TLC

(***************************************************************************)
(* Characters                                                              *)
(***************************************************************************)
BEL == 7
BS  == 8
TAB == 9
LF  == 10
CR  == 13
ESC == 27
REPLACEMENT == 65533

\* Option::None, and the outcome of an operation that panics.  Neither is a
\* string (strings are sequences of chars, and "" is << >>), a BufPos or a
\* selection.
None  == << -2 >>
PANIC == << -1 >>

Min(a, b) == IF a < b THEN a ELSE b
Max(a, b) == IF a > b THEN a ELSE b

InRange(b, lo, hi) == b >= lo /\ b <= hi

\* char::len_utf8
len_utf8(c) ==
  IF c < 128 THEN 1 ELSE IF c < 2048 THEN 2 ELSE IF c < 65536 THEN 3 ELSE 4

\* char::is_control: general category Cc
is_control(c) == c < 32 \/ InRange(c, 127, 159)

\* char::is_ascii_alphabetic
is_ascii_alphabetic(c) == InRange(c, 65, 90) \/ InRange(c, 97, 122)

is_ascii_digit(c) == InRange(c, 48, 57)

\* A length counted in chars.
str_len_chars(s) == Len(s)

\* str::len: the length in bytes of the UTF-8 encoding
RECURSIVE str_len(_)
str_len(s) == IF s = << >> THEN 0 ELSE len_utf8(Head(s)) + str_len(Tail(s))

\* The byte lengths of the first n chars of s: chars().take(n).map(len_utf8).sum()
RECURSIVE take_bytes(_, _)
take_bytes(s, n) ==
  IF n = 0 \/ s = << >> THEN 0 ELSE len_utf8(Head(s)) + take_bytes(Tail(s), n - 1)

\* str::is_char_boundary(i): 0, the length, or the start of a char
RECURSIVE is_char_boundary(_, _)
is_char_boundary(s, i) ==
  IF i = 0 THEN TRUE
  ELSE IF s = << >> THEN FALSE
  ELSE IF i < len_utf8(Head(s)) THEN FALSE
  ELSE is_char_boundary(Tail(s), i - len_utf8(Head(s)))

\* The number of chars of s that lie before byte offset i (a char boundary).
RECURSIVE chars_before(_, _)
chars_before(s, i) ==
  IF i <= 0 \/ s = << >> THEN 0
  ELSE 1 + chars_before(Tail(s), i - len_utf8(Head(s)))

\* &s[from..to] for byte offsets on char boundaries with from <= to <= len
str_slice(s, from, to) ==
  SubSeq(s, chars_before(s, from) + 1, chars_before(s, to))

(***************************************************************************)
(* String::from_utf8_lossy: every maximal invalid byte sequence becomes    *)
(* one U+FFFD.                                                             *)
(***************************************************************************)
IsCont(b) == InRange(b, 128, 191)

Utf8Width(b0) ==
  IF b0 < 128 THEN 1
  ELSE IF InRange(b0, 194, 223) THEN 2
  ELSE IF InRange(b0, 224, 239) THEN 3
  ELSE IF InRange(b0, 240, 244) THEN 4
  ELSE 0

SecondOk(b0, b1) ==
  CASE b0 = 224 -> InRange(b1, 160, 191)
    [] b0 = 237 -> InRange(b1, 128, 159)
    [] b0 = 240 -> InRange(b1, 144, 191)
    [] b0 = 244 -> InRange(b1, 128, 143)
    [] OTHER    -> IsCont(b1)

\* The char decoded at the head of bytes, and the number of bytes it takes.
DecodeHead(bytes) ==
  LET b0 == bytes[1]
      w  == Utf8Width(b0)
      n  == Len(bytes)
  IN  IF w = 1 THEN [ch |-> b0, used |-> 1]
      ELSE IF w = 0 THEN [ch |-> REPLACEMENT, used |-> 1]
      ELSE IF n < 2 \/ ~SecondOk(b0, bytes[2]) THEN [ch |-> REPLACEMENT, used |-> 1]
      ELSE IF w = 2 THEN [ch |-> (b0 - 192) * 64 + (bytes[2] - 128), used |-> 2]
      ELSE IF n < 3 \/ ~IsCont(bytes[3]) THEN [ch |-> REPLACEMENT, used |-> 2]
      ELSE IF w = 3
        THEN [ch |-> (b0 - 224) * 4096 + (bytes[2] - 128) * 64 + (bytes[3] - 128),
              used |-> 3]
      ELSE IF n < 4 \/ ~IsCont(bytes[4]) THEN [ch |-> REPLACEMENT, used |-> 3]
      ELSE [ch |-> (b0 - 240) * 262144 + (bytes[2] - 128) * 4096
                   + (bytes[3] - 128) * 64 + (bytes[4] - 128),
            used |-> 4]

RECURSIVE from_utf8_lossy(_)
\* A decoder that panics on invalid UTF-8, as String::from_utf8(..).unwrap().
from_utf8_unwrap(bytes) ==
  IF bytes = << >> THEN << >>
  ELSE LET d == DecodeHead(bytes)
       IN  IF d.ch = REPLACEMENT THEN PANIC
           ELSE << d.ch >> \o from_utf8_lossy(SubSeq(bytes, d.used + 1, Len(bytes)))

from_utf8_lossy(bytes) ==
  IF bytes = << >> THEN << >>
  ELSE LET d == DecodeHead(bytes)
       IN  << d.ch >> \o from_utf8_lossy(SubSeq(bytes, d.used + 1, Len(bytes)))

(***************************************************************************)
(* AnsiState and Style.  A Style built by to_style carries exactly the     *)
(* foreground, the background and the modifiers of the state.              *)
(***************************************************************************)
NoColor == << "None" >>
Named(c) == << c >>
Indexed(n) == << "Indexed", n >>
Rgb(r, g, b) == << "Rgb", r, g, b >>

AnsiDefault == [fg |-> NoColor, bg |-> NoColor, modifiers |-> {}]

to_style(state) == [fg |-> state.fg, bg |-> state.bg, add_modifier |-> state.modifiers]

StyleDefault == to_style(AnsiDefault)

StyledSpan(t, st) == [text |-> t, style |-> st]

(***************************************************************************)
(* apply_sgr                                                               *)
(***************************************************************************)
\* str::split(sep): the pieces between separators (one more than separators)
RECURSIVE split(_, _)
split(s, sep) ==
  IF \A k \in 1..Len(s) : s[k] /= sep THEN << s >>
  ELSE LET k == CHOOSE k \in 1..Len(s) :
                  s[k] = sep /\ \A j \in 1..(k - 1) : s[j] /= sep
       IN  << SubSeq(s, 1, k - 1) >> \o split(SubSeq(s, k + 1, Len(s)), sep)

RECURSIVE digits_value(_, _)
digits_value(s, acc) ==
  IF s = << >> THEN acc
  ELSE IF acc > 255 THEN acc
  ELSE digits_value(Tail(s), acc * 10 + (Head(s) - 48))

\* A parse that takes what is not a u8 for 0.
parse_u8_or_zero(s) ==
  LET body == IF s /= << >> /\ Head(s) = 43 THEN Tail(s) ELSE s
  IN  IF body = << >> THEN 0
      ELSE IF \E k \in 1..Len(body) : ~is_ascii_digit(body[k]) THEN 0
      ELSE LET v == digits_value(body, 0) IN IF v > 255 THEN 0 ELSE v

\* str::parse::<u8>: an optional '+', then ASCII digits, value at most 255;
\* -1 stands for Err.
parse_u8(s) ==
  LET body == IF s /= << >> /\ Head(s) = 43 THEN Tail(s) ELSE s
  IN  IF body = << >> THEN -1
      ELSE IF \E k \in 1..Len(body) : ~is_ascii_digit(body[k]) THEN -1
      ELSE LET v == digits_value(body, 0) IN IF v > 255 THEN -1 ELSE v

\* params.split(';').filter_map(|s| s.parse().ok()).collect()
RECURSIVE filter_codes(_)
filter_codes(pieces) ==
  IF pieces = << >> THEN << >>
  ELSE LET v == parse_u8(Head(pieces))
       IN  (IF v = -1 THEN << >> ELSE << v >>) \o filter_codes(Tail(pieces))

sgr_codes(params) == filter_codes(split(params, 59))

StdColors ==
  << "Black", "Red", "Green", "Yellow", "Blue", "Magenta", "Cyan", "White" >>
BrightColors ==
  << "DarkGray", "LightRed", "LightGreen", "LightYellow", "LightBlue",
     "LightMagenta", "LightCyan", "Gray" >>

\* The effect of one code that takes no argument.
sgr_simple(c, state) ==
  CASE c = 0 -> AnsiDefault
    [] c = 1 -> [state EXCEPT !.modifiers = @ \cup {"BOLD"}]
    [] c = 2 -> [state EXCEPT !.modifiers = @ \cup {"DIM"}]
    [] c = 3 -> [state EXCEPT !.modifiers = @ \cup {"ITALIC"}]
    [] c = 4 -> [state EXCEPT !.modifiers = @ \cup {"UNDERLINED"}]
    [] c = 5 \/ c = 6 -> [state EXCEPT !.modifiers = @ \cup {"SLOW_BLINK"}]
    [] c = 7 -> [state EXCEPT !.modifiers = @ \cup {"REVERSED"}]
    [] c = 8 -> [state EXCEPT !.modifiers = @ \cup {"HIDDEN"}]
    [] c = 9 -> [state EXCEPT !.modifiers = @ \cup {"CROSSED_OUT"}]
    [] c = 22 -> [state EXCEPT !.modifiers = @ \ {"BOLD", "DIM"}]
    [] c = 23 -> [state EXCEPT !.modifiers = @ \ {"ITALIC"}]
    [] c = 24 -> [state EXCEPT !.modifiers = @ \ {"UNDERLINED"}]
    [] c = 25 -> [state EXCEPT !.modifiers = @ \ {"SLOW_BLINK"}]
    [] c = 27 -> [state EXCEPT !.modifiers = @ \ {"REVERSED"}]
    [] c = 28 -> [state EXCEPT !.modifiers = @ \ {"HIDDEN"}]
    [] c = 29 -> [state EXCEPT !.modifiers = @ \ {"CROSSED_OUT"}]
    [] InRange(c, 30, 37) -> [state EXCEPT !.fg = Named(StdColors[c - 29])]
    [] c = 39 -> [state EXCEPT !.fg = NoColor]
    [] InRange(c, 40, 47) -> [state EXCEPT !.bg = Named(StdColors[c - 39])]
    [] c = 49 -> [state EXCEPT !.bg = NoColor]
    [] InRange(c, 90, 97) -> [state EXCEPT !.fg = Named(BrightColors[c - 89])]
    [] InRange(c, 100, 107) -> [state EXCEPT !.bg = Named(BrightColors[c - 99])]
    [] OTHER -> state

\* The while loop of apply_sgr; i is the 1-based index of the next code.
RECURSIVE sgr_loop(_, _, _)
sgr_loop(codes, i, state) ==
  IF i > Len(codes) THEN state
  ELSE IF codes[i] = 38 \/ codes[i] = 48
    THEN LET set(col) == IF codes[i] = 38 THEN [state EXCEPT !.fg = col]
                                           ELSE [state EXCEPT !.bg = col]
         IN  IF i < Len(codes) /\ codes[i + 1] = 5 /\ i + 2 <= Len(codes)
               THEN sgr_loop(codes, i + 3, set(Indexed(codes[i + 2])))
             ELSE IF i < Len(codes) /\ codes[i + 1] = 2 /\ i + 4 <= Len(codes)
               THEN sgr_loop(codes, i + 5,
                             set(Rgb(codes[i + 2], codes[i + 3], codes[i + 4])))
             ELSE sgr_loop(codes, i + 1, state)
  ELSE sgr_loop(codes, i + 1, sgr_simple(codes[i], state))

\* An apply_sgr without the reset of the empty parameter string.
apply_sgr_no_reset(params, state) == sgr_loop(sgr_codes(params), 1, state)

apply_sgr(params, state) ==
  IF params = << >> \/ params = << 48 >> THEN AnsiDefault
  ELSE sgr_loop(sgr_codes(params), 1, state)

(***************************************************************************)
(* parse_ansi                                                              *)
(***************************************************************************)
\* A flush that always starts a new span.
flush_always_push(p) ==
  IF p.text = << >> THEN p
  ELSE [p EXCEPT !.spans = Append(@, StyledSpan(p.text, to_style(p.state))),
                 !.text = << >>]

\* The flush! macro: move the accumulated text into the spans, merging it
\* into the last span when the style is the same.
flush(p) ==
  IF p.text = << >> THEN p
  ELSE LET style == to_style(p.state)
           n     == Len(p.spans)
       IN  IF n > 0 /\ p.spans[n].style = style
             THEN [p EXCEPT !.spans[n].text = @ \o p.text, !.text = << >>]
             ELSE [p EXCEPT !.spans = Append(@, StyledSpan(p.text, style)),
                            !.text = << >>]

\* for c in chars.by_ref(): the index of the first ASCII letter at or after j,
\* or Len(input) + 1 when the input ends first.
RECURSIVE csi_final(_, _)
csi_final(input, j) ==
  IF j > Len(input) THEN j
  ELSE IF is_ascii_alphabetic(input[j]) THEN j
  ELSE csi_final(input, j + 1)

\* An OSC loop that ends at BEL alone.
RECURSIVE osc_end_at_bel(_, _)
osc_end_at_bel(input, j) ==
  IF j > Len(input) THEN j
  ELSE IF input[j] = BEL THEN j + 1
  ELSE osc_end_at_bel(input, j + 1)

\* The OSC loop: the index of the first char after the sequence.
RECURSIVE osc_end(_, _)
osc_end(input, j) ==
  IF j > Len(input) THEN j
  ELSE IF input[j] = BEL THEN j + 1
  ELSE IF input[j] = ESC
    THEN IF j + 1 <= Len(input) /\ input[j + 1] = 92 THEN j + 2 ELSE j + 1
  ELSE osc_end(input, j + 1)

\* A backspace that removes nothing.
text_pop_nothing(text) == text

\* text.pop(): the accumulated text without its last char; nothing happens
\* to an empty text.
text_pop(text) == IF text = << >> THEN text ELSE SubSeq(text, 1, Len(text) - 1)

\* The while loop of parse_ansi; i is the 1-based index of the next char and
\* p holds spans, text and state.
RECURSIVE parse_loop(_, _, _)
parse_loop(input, i, p) ==
  IF i > Len(input) THEN p
  ELSE LET ch == input[i] IN
    IF ch = ESC THEN
      IF i + 1 <= Len(input) /\ input[i + 1] = 91 THEN
        LET k      == csi_final(input, i + 2)
            params == SubSeq(input, i + 2, k - 1)
        IN  IF k <= Len(input) /\ input[k] = 109
              THEN parse_loop(input, k + 1,
                     [flush(p) EXCEPT !.state = apply_sgr(params, p.state)])
              ELSE parse_loop(input, k + 1, p)
      ELSE IF i + 1 <= Len(input) /\ input[i + 1] = 93 THEN
        parse_loop(input, osc_end(input, i + 2), p)
      ELSE parse_loop(input, i + 2, p)
    ELSE IF ch = CR THEN parse_loop(input, i + 1, p)
    ELSE IF ch = BS THEN parse_loop(input, i + 1, [p EXCEPT !.text = text_pop(@)])
    ELSE IF is_control(ch) /\ ch /= TAB THEN parse_loop(input, i + 1, p)
    ELSE parse_loop(input, i + 1, [p EXCEPT !.text = Append(@, ch)])

\* A parse that forgets the text accumulated after the last SGR sequence.
parse_ansi_no_final_flush(input, state) ==
  LET p == parse_loop(input, 1, [spans |-> << >>, text |-> << >>, state |-> state])
  IN  [spans |-> p.spans, state |-> p.state]

\* parse_ansi(input, &mut state): the spans, and the state as left in place.
parse_ansi(input, state) ==
  LET p == flush(parse_loop(input, 1, [spans |-> << >>, text |-> << >>,
                                         state |-> state]))
  IN  [spans |-> p.spans, state |-> p.state]

\* The text of a line's first span only.
plain_text_first_run(line) == IF line = << >> THEN << >> ELSE Head(line).text

\* plain_text: the concatenated text of a line's spans
RECURSIVE plain_text(_)
plain_text(line) ==
  IF line = << >> THEN << >> ELSE Head(line).text \o plain_text(Tail(line))

(***************************************************************************)
(* wrap_spans: the visual rows of one line                                 *)
(***************************************************************************)
\* The while loop over one span's remaining text.
RECURSIVE wrap_remaining(_, _, _, _)
wrap_remaining(remaining, style, width, r) ==
  IF remaining = << >> THEN r
  ELSE LET capacity   == width - r.chars_in_row
           char_count == Len(remaining)
       IN  IF char_count <= capacity
             THEN [r EXCEPT !.current = Append(@, StyledSpan(remaining, style)),
                            !.chars_in_row = @ + char_count,
                            !.line_byte_offset = @ + str_len(remaining)]
             ELSE LET head == SubSeq(remaining, 1, capacity)
                      tail == SubSeq(remaining, capacity + 1, char_count)
                      cur  == IF head /= << >>
                                THEN Append(r.current, StyledSpan(head, style))
                                ELSE r.current
                      off  == r.line_byte_offset + str_len(head)
                  IN  wrap_remaining(tail, style, width,
                        [rows |-> Append(r.rows, [chunk |-> cur,
                                                  start |-> r.row_byte_start]),
                         current |-> << >>,
                         chars_in_row |-> 0,
                         line_byte_offset |-> off,
                         row_byte_start |-> off])

RECURSIVE wrap_each(_, _, _)
wrap_each(spans, width, r) ==
  IF spans = << >> THEN r
  ELSE wrap_each(Tail(spans), width,
                 wrap_remaining(Head(spans).text, Head(spans).style, width, r))

\* A wrap that closes a row as soon as it is full, and so ends a line that
\* fills its last row with an empty row.
wrap_spans_trailing_row(spans, width) ==
  LET r    == wrap_each(spans, width,
                        [rows |-> << >>, current |-> << >>, chars_in_row |-> 0,
                         line_byte_offset |-> 0, row_byte_start |-> 0])
      rows == Append(r.rows, [chunk |-> r.current, start |-> r.row_byte_start])
  IN  IF r.chars_in_row = width
        THEN Append(rows, [chunk |-> << >>, start |-> r.line_byte_offset])
        ELSE rows

\* wrap_spans(spans, width): the rows, each with the spans of the row and the
\* byte offset in the line at which the row starts.
wrap_spans(spans, width) ==
  IF width = 0 THEN << [chunk |-> spans, start |-> 0] >>
  ELSE LET r == wrap_each(spans, width,
                          [rows |-> << >>, current |-> << >>, chars_in_row |-> 0,
                           line_byte_offset |-> 0, row_byte_start |-> 0])
       IN  Append(r.rows, [chunk |-> r.current, start |-> r.row_byte_start])

(***************************************************************************)
(* Bounds of the model                                                     *)
(***************************************************************************)
\* Capacity of the scrollback buffer (2000 in the program), scaled down so
\* that overflow happens within the reads of a run.
MAX_LINES == 3

\* Reads that return data before the pty reports EOF or an error.
MaxReads == 3
\* Bytes the pty holds that the child has not consumed yet.
MaxOut == 1
\* The screen coordinates of mouse events: column 0 is the left border,
\* row 0 the top border of the block.
Cols == 0..3
Rows == 0..2

\* The chunks a read may return: "a\nbcd\n", "\u{e9}" (two bytes), two
\* backspaces, "\n".
Chunks ==
  { << 97, LF, 98, 99, 100, LF >>, << 195, 169 >>, << BS, BS >>, << LF >> }

\* Streams holding SGR sequences: "\x1b[31mH", "\x1b[31mHI",
\* "\x1b[38;5;9mx\n", "a\x1b[1;32mb\nc\x1b[0md".
SgrStreams ==
  { << ESC, 91, 51, 49, 109, 72 >>,
    << ESC, 91, 51, 49, 109, 72, 73 >>,
    << ESC, 91, 51, 56, 59, 53, 59, 57, 109, 120, LF >>,
    << 97, ESC, 91, 49, 59, 51, 50, 109, 98, LF, 99, ESC, 91, 48, 109, 100 >> }

\* The chunks read while the selection gestures are exercised: "a\nbcd\n",
\* "\u{e9}".
MouseChunks == { << 97, LF, 98, 99, 100, LF >>, << 195, 169 >> }

\* The chunks read while the persistent style is watched: "\x1b[31mx", "\n",
\* "\x1b[0my\n", "z".
StyleChunks ==
  { << ESC, 91, 51, 49, 109, 120 >>, << LF >>, << ESC, 91, 48, 109, 121, LF >>,
    << 122 >> }

\* Chunks of a remote that is not well behaved: an invalid byte, the first
\* byte of a two-byte char, "\x1b[31" (a CSI without its final byte),
\* "\x1b]0;t" (an OSC without its end), a lone ESC, control bytes, "\x1b[38;5m\n"
\* and "\x1b[999;;m" (malformed SGR), "ok\n".
HostileChunks ==
  { << 255 >>, << 195 >>, << ESC, 91, 51, 49 >>, << ESC, 93, 48, 59, 116 >>,
    << ESC >>, << 0, BEL, BS, CR >>, << ESC, 91, 51, 56, 59, 53, 109, LF >>,
    << ESC, 91, 57, 57, 57, 59, 59, 109 >>, << 111, 107, LF >> }

\* The texts that are staged and pasted: "ls", "rm\r", "\u{e9}\n",
\* "\u{20ac}\u{1f600}".
InputTexts ==
  { << 108, 115 >>, << 114, 109, CR >>, << 233, LF >>, << 8364, 128512 >> }

\* Streams whose only visible char is "h": "\x1b[31mh\n" and
\* "\x1b]0;t\x07h\n".
EscStreams ==
  { << ESC, 91, 51, 49, 109, 104, LF >>, << ESC, 93, 48, 59, 116, BEL, 104, LF >> }

\* Streams with line feeds and carriage returns: "a\r\nb\rc\nd", "\r\n\r",
\* "ab\r", "\n\n", "x\n\ny\nz", "\u{e9}\n".
LineStreams ==
  { << 97, CR, LF, 98, CR, 99, LF, 100 >>, << CR, LF, CR >>, << 97, 98, CR >>,
    << LF, LF >>, << 120, LF, LF, 121, LF, 122 >>, << 195, 169, LF >> }

\* The pieces a line with backspaces is put together from: "a", "b", a
\* backspace, CR, "\x1b[31m" and "\x1b[m" (SGR), "\x1b[2J" (another CSI),
\* "\x1b]0\x07" (OSC), "\x1bc" (ESC and one char).
BsTokens ==
  { << 97 >>, << 98 >>, << BS >>, << CR >>, << ESC, 91, 51, 49, 109 >>,
    << ESC, 91, 109 >>, << ESC, 91, 50, 74 >>, << ESC, 93, 48, BEL >>,
    << ESC, 99 >> }
\* The most pieces such a line is put together from.
MaxBsTokens == 3

\* The parameters an SGR sequence is put together from: "" (empty), "300"
\* (not a u8), "10" (no defined code), "1", "5", "2", "38", "48", "31".
SgrPieces ==
  { << >>, << 51, 48, 48 >>, << 49, 48 >>, << 49 >>, << 53 >>, << 50 >>,
    << 51, 56 >>, << 52, 56 >>, << 51, 49 >> }
\* The most parameters such a sequence is put together from.
MaxParams == 4
\* Longer lists, with the true-colour form: "38;2;1;2;3;4", "38;2;1;;2;3",
\* "48;2;300;1;2;3;4", "38;2;1;2;300;4".
RgbLists ==
  { << << 51, 56 >>, << 50 >>, << 49 >>, << 50 >>, << 51 >>, << 52 >> >>,
    << << 51, 56 >>, << 50 >>, << 49 >>, << >>, << 50 >>, << 51 >> >>,
    << << 52, 56 >>, << 50 >>, << 51, 48, 48 >>, << 49 >>, << 50 >>, << 51 >>,
       << 52 >> >>,
    << << 51, 56 >>, << 50 >>, << 49 >>, << 50 >>, << 51, 48, 48 >>, << 52 >> >> }
\* The decimal digits of a number of 0..999, as chars.
Digits(n) ==
  IF n < 10 THEN << 48 + n >>
  ELSE IF n < 100 THEN << 48 + (n \div 10), 48 + (n % 10) >>
  ELSE << 48 + (n \div 100), 48 + ((n \div 10) % 10), 48 + (n % 10) >>
\* The parameter list of the numbers.
AsParams(ns) == [k \in 1..Len(ns) |-> Digits(ns[k])]
\* Lists for the SGR table: each number of 0..107 alone, pairs of codes, the
\* indexed and the true-colour form of 38 and of 48 followed by a code, and
\* the forms cut short.
TableLists ==
  { AsParams(<< c >>) : c \in 0..107 }
    \cup { AsParams(<< a, b >>) : a, b \in { 0, 1, 5, 22, 31, 39 } }
    \cup { AsParams(<< s, 5, n, c >>) :
             s \in { 38, 48 }, n \in { 0, 7, 255 }, c \in { 0, 1, 31 } }
    \cup { AsParams(<< s, 2, 1, 2, 3, c >>) : s \in { 38, 48 }, c \in { 1, 44 } }
    \cup { AsParams(<< s, 2, 255, 0, 5 >>) : s \in { 38, 48 } }
    \cup { AsParams(ns) :
             ns \in { << 38, 5 >>, << 38, 2 >>, << 38, 2, 1 >>, << 38, 2, 1, 2 >>,
                      << 48, 5 >>, << 48, 2 >>, << 48, 2, 1 >>, << 48, 2, 1, 2 >> } }

\* The states an SGR sequence is applied to: default, red on blue, bold and
\* italic.
SgrStates ==
  { [fg |-> << "None" >>, bg |-> << "None" >>, modifiers |-> {}],
    [fg |-> << "Red" >>, bg |-> << "Blue" >>, modifiers |-> {}],
    [fg |-> << "None" >>, bg |-> << "None" >>, modifiers |-> {"BOLD", "ITALIC"}] }

\* The pieces an input with sequences that carry no meaning is put together
\* from: "a", "\u{e9}", a backspace, "\x1b[31m" (SGR), "\x1b[2J", "\x1b[?25l"
\* and "\x1b[H" (other CSI), "\x1b]0;t\x07" and "\x1b]0\x1b\\" (OSC),
\* "\x1bc" (ESC and one char).
FrameTokens ==
  { << 97 >>, << 233 >>, << BS >>, << ESC, 91, 51, 49, 109 >>,
    << ESC, 91, 50, 74 >>, << ESC, 91, 63, 50, 53, 108 >>, << ESC, 91, 72 >>,
    << ESC, 93, 48, 59, 116, BEL >>, << ESC, 93, 48, ESC, 92 >>, << ESC, 99 >> }
\* The most pieces such an input is put together from.
MaxFrameTokens == 3

\* The chunks read while a selection is held: "bc\nd", "\x08\u{e9}\n".
HoldChunks == { << 98, 99, LF, 100 >>, << BS, 195, 169, LF >> }

\* Streams with chars of more than one byte: "a\u{e9}\nb", "\u{20ac}x",
\* "\x1b[31m\u{e9}\n\u{1f600}".
Utf8Streams ==
  { << 97, 195, 169, LF, 98 >>, << 226, 130, 172, 120 >>,
    << ESC, 91, 51, 49, 109, 195, 169, LF, 240, 159, 152, 128 >> }

\* The chunk read while the copy key is exercised: "bc\n\u{e9}".
CopyChunks == { << 98, 99, LF, 195, 169 >> }

\* The inner rectangles (inside the border) a render pass may be given.
Rect(x, y, w, h) == [x |-> x, y |-> y, width |-> w, height |-> h]
RectDefault == Rect(0, 0, 0, 0)
Inners == { Rect(1, 1, 2, 1), Rect(1, 1, 2, 2) }

\* A buffer line as the parser leaves it: no run for an empty text, one
\* default-styled run, or (cut inside the text) a default-styled run followed
\* by a red one.
as_line(text, cut) ==
  IF text = << >> THEN << >>
  ELSE IF cut <= 0 \/ cut >= Len(text) THEN << StyledSpan(text, StyleDefault) >>
  ELSE << StyledSpan(SubSeq(text, 1, cut), StyleDefault),
          StyledSpan(SubSeq(text, cut + 1, Len(text)),
                     to_style([AnsiDefault EXCEPT !.fg = Named("Red")])) >>

as_lines(specs) == [k \in 1..Len(specs) |-> as_line(specs[k][1], specs[k][2])]

\* The lines of the buffers selected_text is called on, each a text and a
\* cut: "", "a", "\u{e9}b" in one run and in two.
SelLineSpecs == { << << >>, 0 >>, << << 97 >>, 0 >>, << << 233, 98 >>, 0 >>,
                  << << 233, 98 >>, 1 >> }
\* The most lines such a buffer holds.
MaxSelLines == 3
\* The byte offsets of the positions of a selection: up to one past the
\* longest line, on and off char boundaries (a selection made before the
\* pump replaced the line).
SelOffsets == 0..4

\* Sequences over S of lengths 1..n
SeqsUpTo(S, n) == UNION { [1..m -> S] : m \in 1..n }

\* The concatenation of a sequence of strings
RECURSIVE concat(_)
concat(ss) == IF ss = << >> THEN << >> ELSE Head(ss) \o concat(Tail(ss))

\* The runs of text from its char at index from on, cut after the chars whose
\* indices are in cuts, the styles alternating between red and default.
RECURSIVE cut_runs(_, _, _, _)
cut_runs(text, cuts, from, red) ==
  IF from > Len(text) THEN << >>
  ELSE LET later == { c \in cuts : c >= from }
           next  == IF later = {} THEN Len(text)
                    ELSE CHOOSE c \in later : \A d \in later : c <= d
       IN  << StyledSpan(SubSeq(text, from, next),
                         IF red THEN to_style([AnsiDefault EXCEPT !.fg = Named("Red")])
                                ELSE StyleDefault) >>
             \o cut_runs(text, cuts, next + 1, ~red)

\* The chars of the lines that are wrapped: "a", "\u{e9}" (two bytes),
\* "\u{20ac}" (three bytes).
WrapChars == { 97, 233, 8364 }
\* The most chars of a line that is wrapped, and the largest width.
MaxWrapLen == 4
MaxWidth == 3
WrapTexts == { << >> } \cup SeqsUpTo(WrapChars, MaxWrapLen)

\* The names of the connections of the listing, and the most calls of
\* TerminalTab::connect.
HostNames == { "alpha", "beta", "gamma" }
MaxConnects == 3

\* The pieces the parser's inputs are put together from: "a", "\u{e9}", tab,
\* CR, backspace, "m", "\x1b[31m", "\x1b[0m", "\x1b[1m", "\x1b[2J" (a CSI
\* sequence that is no SGR), "\x1b]0\x07" (OSC), a lone ESC, and the
\* truncated "\x1b[3".
ParseTokens ==
  { << 97 >>, << 233 >>, << TAB >>, << CR >>, << BS >>, << 109 >>,
    << ESC, 91, 51, 49, 109 >>, << ESC, 91, 48, 109 >>, << ESC, 91, 49, 109 >>,
    << ESC, 91, 50, 74 >>, << ESC, 93, 48, BEL >>, << ESC >>, << ESC, 91, 51 >> }
\* The most pieces an input is put together from.
MaxTokens == 3
\* "\x1b[31mHELLO\x1b[0m world"
HelloWorld ==
  << ESC, 91, 51, 49, 109, 72, 69, 76, 76, 79, ESC, 91, 48, 109,
     32, 119, 111, 114, 108, 100 >>
ParseInputs ==
  { << >>, HelloWorld } \cup { concat(ts) : ts \in SeqsUpTo(ParseTokens, MaxTokens) }
\* The states a parse starts from: default, red foreground, bold.
ParseStates ==
  { AnsiDefault, [AnsiDefault EXCEPT !.fg = Named("Red")],
    [AnsiDefault EXCEPT !.modifiers = {"BOLD"}] }

(***************************************************************************)
(* State                                                                   *)
(***************************************************************************)
VARIABLES
  \* shared between the reader thread and the TerminalTab (Arc<Mutex<..>>)
  lines,            \* Vec<Vec<StyledSpan>>
  alive,
  clear_signal,
  \* locals of the reader thread
  pump_pc,          \* "read": blocked in read; "update": before the buffer
                    \* lock; "exit": loop left; "done": alive set to false
  partial,          \* the accumulator
  partial_in_buf,
  ansi_state,
  complete,         \* the lines completed by the current cycle
  partial_line,     \* the parsed partial line of the current cycle
  \* fields of TerminalTab
  scroll_offset,
  selection,        \* None or <<anchor, cursor>>, a BufPos being <<line, byte>>
  last_render_start,
  last_inner,
  last_visual_row_map,
  has_clipboard,    \* whether arboard::Clipboard::new() succeeded
  clipboard,        \* the text last set on the system clipboard
  pty_out,          \* bytes written to the pty writer, not yet consumed
  pty_size,         \* the size last given to the pty: <<rows, cols>>
  \* the foreground loop of main
  ui_pc,            \* "draw", "event", "clear": inside clear_buffer,
                    \* "gone": the TerminalTab was dropped
  crashed,          \* the foreground thread panicked
  \* history
  reads,            \* reads that returned data so far
  tags,             \* for each entry of lines: TRUE when pushed as a partial line
  appended,         \* every completed line the pump appended, in order
  cleared,          \* clear_buffer was called at least once
  mouse_phase,      \* the mouse events so far: "idle"; "pressed" / "pressed_out":
                    \* a press that resolved / did not, no drag since;
                    \* "dragged"; "clicked" / "clicked_out": a release after
                    \* such a press; "released": a release after a drag
  mark,             \* a line count recorded by line_count(), or -1
  mark_evicted,     \* lines evicted since mark was recorded
  \* a byte stream delivered to the reader thread in successive reads
  stream,           \* the whole stream
  fed,              \* the number of its bytes read so far
  \* a call of one of the pure functions
  probe,            \* [op, in, done, out]: the function, its arguments, whether
                    \* it has returned, and what it returned
  \* the three mutexes
  locks,            \* for "lines", "alive", "clear_signal": the thread that
                    \* holds the lock, "pump" or "ui", or "none"
  \* the application around the tab
  app,              \* Sheesh: state, connection_name, focus, terminal and llm
                    \* (TRUE for Some), error, listing (the connections'
                    \* names); history: the calls of TerminalTab::connect,
                    \* the children spawned and the reader threads started
  \* the assistant tab of the session
  llm_tab           \* LLMTab: input, waiting, status, rx (the events in the
                    \* channel), pending_tool_call, awaiting_output_id,
                    \* auto_approve; COUNTER of unique_tool_id; the completion
                    \* threads running; history: the completions spawned and
                    \* the actions handle_event returned

pump_vars == << pump_pc, partial, partial_in_buf, ansi_state, complete, partial_line >>
shared_vars == << lines, alive, clear_signal >>
tab_vars == << scroll_offset, selection, last_render_start, last_inner,
               last_visual_row_map, has_clipboard, clipboard, pty_out, pty_size >>
hist_vars == << reads, tags, appended, cleared, mouse_phase, mark, mark_evicted >>
feed_vars == << stream, fed, probe, locks, app, llm_tab >>
vars == << pump_vars, shared_vars, tab_vars, ui_pc, crashed, hist_vars, feed_vars >>

\* The state after TerminalTab::connect returned Ok.
InitSession ==
  /\ lines = << >> /\ alive = TRUE /\ clear_signal = FALSE
  /\ pump_pc = "read" /\ partial = << >> /\ partial_in_buf = FALSE
  /\ ansi_state = AnsiDefault /\ complete = << >> /\ partial_line = << >>
  /\ scroll_offset = 0 /\ selection = None /\ last_render_start = 0
  /\ last_inner = RectDefault /\ last_visual_row_map = << >>
  /\ has_clipboard = TRUE /\ clipboard = << >>
  /\ pty_out = << >> /\ pty_size = << 40, 120 >>
  /\ ui_pc = "draw" /\ crashed = FALSE
  /\ reads = 0 /\ tags = << >> /\ appended = << >> /\ cleared = FALSE
  /\ mouse_phase = "idle" /\ mark = -1 /\ mark_evicted = 0

\* The mutexes, and the state in which none is held.
LockNames == { "lines", "alive", "clear_signal" }
NoLocks == [l \in LockNames |-> "none"]

\* Sheesh::new, for a listing of the given connections.
Sheesh_new(names) ==
  [state |-> "Listing", connection_name |-> None, focus |-> "Terminal",
   terminal |-> FALSE, llm |-> FALSE, error |-> None, listing |-> names,
   calls |-> 0, children |-> 0, threads |-> 0]

\* The application with the session of this model connected.
AppConnected ==
  [Sheesh_new({ "host" }) EXCEPT !.state = "Connected", !.connection_name = "host",
                                !.terminal = TRUE, !.llm = TRUE,
                                !.calls = 1, !.children = 1, !.threads = 1]

\* No call of a pure function is under way.
NoProbe == [op |-> "none", in |-> << >>, done |-> TRUE, out |-> << >>]

\* LLMTab::new: nothing typed, no request under way, no tool call pending,
\* auto-approve off; unique_tool_id's COUNTER starts at 1.
LLMTab_new ==
  [input |-> << >>, waiting |-> FALSE, status |-> "", rx |-> << >>,
   pending_tool_call |-> None, awaiting_output_id |-> None,
   auto_approve |-> FALSE, counter |-> 1, threads |-> 0,
   spawned |-> 0, actions |-> << >>]

Init == InitSession /\ stream = << >> /\ fed = 0 /\ probe = NoProbe /\ locks = NoLocks /\ app = AppConnected /\ llm_tab = LLMTab_new

(***************************************************************************)
(* The reader thread                                                       *)
(***************************************************************************)
\* partial.find('\n'): the 1-based index of the first LF, 0 when there is none
\* A search that takes a carriage return for a line end as well.
find_lf_or_cr(s) ==
  IF \A k \in 1..Len(s) : s[k] \notin { LF, CR } THEN 0
  ELSE CHOOSE k \in 1..Len(s) :
         s[k] \in { LF, CR } /\ \A j \in 1..(k - 1) : s[j] \notin { LF, CR }

find_lf(s) ==
  IF \A k \in 1..Len(s) : s[k] /= LF THEN 0
  ELSE CHOOSE k \in 1..Len(s) : s[k] = LF /\ \A j \in 1..(k - 1) : s[j] /= LF

\* while let Some(pos) = partial.find('\n'): parse each complete line,
\* advancing the state, and drain it from the accumulator.
RECURSIVE extract_complete(_)
extract_complete(e) ==
  LET pos == find_lf(e.partial)
  IN  IF pos = 0 THEN e
      ELSE LET r == parse_ansi(SubSeq(e.partial, 1, pos - 1), e.state)
           IN  extract_complete(
                 [partial  |-> SubSeq(e.partial, pos + 1, Len(e.partial)),
                  state    |-> r.state,
                  complete |-> Append(e.complete, r.spans)])

\* A clear-signal block that resets the state and leaves the accumulator.
observe_clear_keep_partial(sig, loc) ==
  IF sig THEN [partial |-> loc.partial, partial_in_buf |-> FALSE, state |-> AnsiDefault]
         ELSE loc

\* The clear-signal block: what the thread's locals become when it finds the
\* flag set.
observe_clear(sig, loc) ==
  IF sig THEN [partial |-> << >>, partial_in_buf |-> FALSE, state |-> AnsiDefault]
         ELSE loc

\* if partial_in_buf && !lock.is_empty() { lock.pop(); }
pop_partial(l, in_buf) ==
  IF in_buf /\ l /= << >> THEN SubSeq(l, 1, Len(l) - 1) ELSE l

\* Eviction that leaves one line too many.
evict_one_short(l) ==
  IF Len(l) > MAX_LINES + 1 THEN SubSeq(l, Len(l) - MAX_LINES, Len(l)) ELSE l

\* Eviction that truncates at the newest end instead of draining the oldest.
evict_newest(l) ==
  IF Len(l) > MAX_LINES THEN SubSeq(l, 1, MAX_LINES) ELSE l

\* if len > MAX_LINES { lock.drain(0..len - MAX_LINES); }
evict(l) ==
  IF Len(l) > MAX_LINES THEN SubSeq(l, Len(l) - MAX_LINES + 1, Len(l)) ELSE l

\* The buffer after one update under the lock.
update_lines(l, in_buf, compl, part) ==
  evict(Append(pop_partial(l, in_buf) \o compl, part))

TrueSeq(n) == [k \in 1..n |-> TRUE]
FalseSeq(n) == [k \in 1..n |-> FALSE]

\* A read cycle that forgets what the previous reads left unfinished.
accumulate_chunk_only(acc, chunk) == from_utf8_lossy(chunk)

\* let chunk = String::from_utf8_lossy(&buf[..n]); partial.push_str(&chunk)
accumulate(acc, chunk) == acc \o from_utf8_lossy(chunk)

\* A parse of the partial line that works on the persistent state itself.
parse_partial_in_place(part, state) == parse_ansi(part, state)

\* let partial_line = { let mut tmp = ansi_state.clone(); parse_ansi(&partial,
\* &mut tmp) }: the spans, and the persistent state, which the parse of the
\* clone leaves alone.
parse_partial(part, state) ==
  [spans |-> parse_ansi(part, state).spans, state |-> state]

\* read returned Ok(n), n > 0: observe the clear flag, decode and accumulate
\* the chunk, split off and parse the complete lines, parse the partial line.
ReadCycle(chunk) ==
  /\ ~crashed /\ pump_pc = "read" /\ reads < MaxReads
  /\ LET loc == observe_clear(clear_signal,
                  [partial |-> partial, partial_in_buf |-> partial_in_buf,
                   state |-> ansi_state])
         e   == extract_complete(
                  [partial  |-> accumulate(loc.partial, chunk),
                   state    |-> loc.state,
                   complete |-> << >>])
     IN  /\ partial' = e.partial
         /\ partial_in_buf' = loc.partial_in_buf
         /\ ansi_state' = parse_partial(e.partial, e.state).state
         /\ complete' = e.complete
         /\ partial_line' = parse_partial(e.partial, e.state).spans
  /\ clear_signal' = FALSE
  /\ pump_pc' = "update"
  /\ reads' = reads + 1
  /\ UNCHANGED << lines, alive, tab_vars, ui_pc, crashed,
                  tags, appended, cleared, mouse_phase, mark, mark_evicted >>

\* A read of a chunk the environment chooses.
PumpRead(chunk) == ReadCycle(chunk) /\ UNCHANGED feed_vars

\* A read that returns the next k bytes of the stream.
FeedNext(k) ==
  /\ k >= 1 /\ fed + k <= Len(stream)
  /\ ReadCycle(SubSeq(stream, fed + 1, fed + k))
  /\ fed' = fed + k
  /\ UNCHANGED << stream, probe, locks, app, llm_tab >>

\* One whole read cycle of a fresh reader thread on an empty buffer: the
\* buffer and the persistent state after it.
one_read(chunk) ==
  LET e == extract_complete([partial  |-> accumulate(<< >>, chunk),
                             state    |-> AnsiDefault,
                             complete |-> << >>])
  IN  [lines |-> update_lines(<< >>, FALSE, e.complete,
                              parse_ansi(e.partial, e.state).spans),
       state |-> e.state]

\* The buffer update under the lock: replace the previous partial entry,
\* append the completed lines and the new partial line, evict.
PumpUpdate ==
  /\ UNCHANGED feed_vars
  /\ ~crashed /\ pump_pc = "update"
  /\ lines' = update_lines(lines, partial_in_buf, complete, partial_line)
  /\ tags' = LET t == Append(pop_partial(tags, partial_in_buf)
                               \o FalseSeq(Len(complete)), TRUE)
             IN  SubSeq(t, Len(t) - Len(lines') + 1, Len(t))
  /\ appended' = appended \o complete
  /\ mark_evicted' = IF mark < 0 THEN mark_evicted
                     ELSE mark_evicted + Len(pop_partial(lines, partial_in_buf))
                            + Len(complete) + 1 - Len(lines')
  /\ partial_in_buf' = TRUE
  /\ complete' = << >> /\ partial_line' = << >>
  /\ pump_pc' = "read"
  /\ UNCHANGED << alive, clear_signal, partial, ansi_state, tab_vars, ui_pc,
                  crashed, reads, cleared, mouse_phase, mark >>

\* read returned Ok(0) or Err: the loop is left.
PumpEof ==
  /\ UNCHANGED feed_vars
  /\ ~crashed /\ pump_pc = "read"
  /\ pump_pc' = "exit"
  /\ UNCHANGED << partial, partial_in_buf, ansi_state, complete, partial_line,
                  shared_vars, tab_vars, ui_pc, crashed, hist_vars >>

\* A reader thread that marks the session dead and goes back to reading.
PumpSetDeadAndRetry ==
  /\ UNCHANGED feed_vars
  /\ ~crashed /\ pump_pc = "exit"
  /\ alive' = FALSE
  /\ pump_pc' = "read"
  /\ UNCHANGED << partial, partial_in_buf, ansi_state, complete, partial_line,
                  lines, clear_signal, tab_vars, ui_pc, crashed, hist_vars >>

\* A reader thread that ends without marking the session dead.
PumpExitStillAlive ==
  /\ UNCHANGED feed_vars
  /\ ~crashed /\ pump_pc = "exit"
  /\ pump_pc' = "done"
  /\ UNCHANGED << partial, partial_in_buf, ansi_state, complete, partial_line,
                  shared_vars, tab_vars, ui_pc, crashed, hist_vars >>

\* *alive_clone.lock().unwrap() = false
PumpSetDead ==
  /\ UNCHANGED feed_vars
  /\ ~crashed /\ pump_pc = "exit"
  /\ alive' = FALSE
  /\ pump_pc' = "done"
  /\ UNCHANGED << partial, partial_in_buf, ansi_state, complete, partial_line,
                  lines, clear_signal, tab_vars, ui_pc, crashed, hist_vars >>

(***************************************************************************)
(* The selection engine                                                    *)
(***************************************************************************)
\* screen_to_buf(col, row) on a tab with the given last_inner and row map and
\* a buffer l: None, a BufPos <<line, byte>>, or PANIC where the indexing
\* lock[buf_line] or the slice text[row_byte_start..] is out of range.
resolve(inner, map, l, col, row) ==
  IF row < inner.y \/ row >= inner.y + inner.height THEN None
  ELSE IF col < inner.x THEN None
  ELSE LET screen_row == row - inner.y
           screen_col == col - inner.x
       IN  IF screen_row + 1 > Len(map) THEN None
           ELSE LET buf_line       == map[screen_row + 1][1]
                    row_byte_start == map[screen_row + 1][2]
                IN  IF buf_line >= Len(l) THEN PANIC
                    ELSE LET text == plain_text(l[buf_line + 1])
                         IN  IF row_byte_start > str_len(text)
                                  \/ ~is_char_boundary(text, row_byte_start)
                               THEN PANIC
                             ELSE LET rest == str_slice(text, row_byte_start,
                                                        str_len(text))
                                  IN  << buf_line,
                                         row_byte_start + take_bytes(rest, screen_col) >>

screen_to_buf(col, row) == resolve(last_inner, last_visual_row_map, lines, col, row)

\* BufPos order: (line, offset) lexicographically
pos_le(a, b) == a[1] < b[1] \/ (a[1] = b[1] /\ a[2] <= b[2])

\* A range taken as anchor and cursor stand.
selection_range_as_given(sel) == sel

\* selection_range: None, or <<start, end>> in reading order
selection_range(sel) ==
  IF sel = None THEN None
  ELSE IF pos_le(sel[1], sel[2]) THEN sel ELSE << sel[2], sel[1] >>

\* A lower end that is taken as it is.
floor_boundary_as_given(text, from) == from

\* (0..=from).rev().find(|i| text.is_char_boundary(i)).unwrap_or(0)
floor_boundary(text, from) ==
  LET S == { i \in 0..from : is_char_boundary(text, i) }
  IN  IF S = {} THEN 0 ELSE CHOOSE i \in S : \A j \in S : j <= i

\* (to..=text.len()).find(|i| text.is_char_boundary(i)).unwrap_or(text.len())
ceil_boundary(text, to) ==
  LET S == { i \in to..str_len(text) : is_char_boundary(text, i) }
  IN  IF S = {} THEN str_len(text) ELSE CHOOSE i \in S : \A j \in S : i <= j

\* The for loop of selected_text from line li (0-based) on: the text pushed,
\* or PANIC where a slice text[from..to] has from > to.
RECURSIVE selected_from(_, _, _, _, _)
selected_from(l, start, end, end_line, li) ==
  IF li > end_line THEN << >>
  ELSE LET text == plain_text(l[li + 1])
           from0 == IF li = start[1] THEN Min(start[2], str_len(text)) ELSE 0
           to0   == IF li = end_line THEN Min(end[2], str_len(text)) ELSE str_len(text)
           from  == floor_boundary(text, from0)
           to    == ceil_boundary(text, to0)
           rest  == selected_from(l, start, end, end_line, li + 1)
       IN  IF from > to \/ rest = PANIC THEN PANIC
           ELSE str_slice(text, from, to)
                  \o (IF li < end_line THEN << LF >> ELSE << >>) \o rest

\* if out.is_empty() { None } else { Some(out) }
some_if_nonempty(out) == IF out = << >> THEN None ELSE out

\* selected_text: None (also for an empty extraction), the text, or PANIC
selected_text(l, sel) ==
  LET r == selection_range(sel)
  IN  IF r = None THEN None
      ELSE IF r[1][1] >= Len(l) THEN None
      ELSE LET out == selected_from(l, r[1], r[2], Min(r[2][1], Len(l) - 1), r[1][1])
           IN  IF out = PANIC THEN PANIC ELSE some_if_nonempty(out)

\* A press that anchors at the start of the row's line.
mouse_down_line_start(res) ==
  IF res = None THEN None ELSE << << res[1], 0 >>, res >>

\* A drag that moves the anchor with the cursor.
mouse_drag_both(sel, res) ==
  IF sel /= None /\ res /= None THEN << res, res >> ELSE sel

\* A release that discards the selection when the mouse did move.
mouse_up_inverted(sel) == IF sel /= None /\ sel[1] /= sel[2] THEN None ELSE sel

mouse_down(res) == IF res = None THEN None ELSE << res, res >>

mouse_drag(sel, res) ==
  IF sel /= None /\ res /= None THEN << sel[1], res >> ELSE sel

mouse_up(sel) == IF sel /= None /\ sel[1] = sel[2] THEN None ELSE sel

UiUnchanged == UNCHANGED << pump_vars, lines, alive, clear_signal, reads, tags,
                            appended, mark, mark_evicted >>

\* MouseEventKind::Down(MouseButton::Left)
MouseDown(col, row) ==
  /\ UNCHANGED feed_vars
  /\ ~crashed /\ ui_pc = "event"
  /\ LET res == screen_to_buf(col, row)
     IN  IF res = PANIC
           THEN crashed' = TRUE /\ UNCHANGED << selection, mouse_phase, ui_pc >>
           ELSE /\ selection' = mouse_down(res)
                /\ mouse_phase' = IF res = None THEN "pressed_out" ELSE "pressed"
                /\ ui_pc' = "draw"
                /\ UNCHANGED crashed
  /\ UNCHANGED << scroll_offset, last_render_start, last_inner,
                  last_visual_row_map, has_clipboard, clipboard, pty_out,
                  pty_size, cleared >>
  /\ UiUnchanged

\* MouseEventKind::Drag(MouseButton::Left)
MouseDrag(col, row) ==
  /\ UNCHANGED feed_vars
  /\ ~crashed /\ ui_pc = "event"
  /\ LET res == IF selection = None THEN None ELSE screen_to_buf(col, row)
     IN  IF res = PANIC
           THEN crashed' = TRUE /\ UNCHANGED << selection, mouse_phase, ui_pc >>
           ELSE /\ selection' = mouse_drag(selection, res)
                /\ mouse_phase' = "dragged"
                /\ ui_pc' = "draw"
                /\ UNCHANGED crashed
  /\ UNCHANGED << scroll_offset, last_render_start, last_inner,
                  last_visual_row_map, has_clipboard, clipboard, pty_out,
                  pty_size, cleared >>
  /\ UiUnchanged

\* MouseEventKind::Up(MouseButton::Left)
MouseUp ==
  /\ UNCHANGED feed_vars
  /\ ~crashed /\ ui_pc = "event"
  /\ selection' = mouse_up(selection)
  /\ mouse_phase' = CASE mouse_phase = "pressed" -> "clicked"
                       [] mouse_phase = "pressed_out" -> "clicked_out"
                       [] OTHER -> "released"
  /\ ui_pc' = "draw"
  /\ UNCHANGED << scroll_offset, last_render_start, last_inner,
                  last_visual_row_map, has_clipboard, clipboard, pty_out,
                  pty_size, cleared, crashed >>
  /\ UiUnchanged

(***************************************************************************)
(* Rendering: resize propagation and the visual row map                    *)
(***************************************************************************)
RECURSIVE row_entries(_, _)
row_entries(rows, buf_idx) ==
  IF rows = << >> THEN << >>
  ELSE << << buf_idx, Head(rows).start >> >> \o row_entries(Tail(rows), buf_idx)

\* The 'outer loop of render: the rows of the lines from buf_idx (0-based) on,
\* until visible_height rows are displayed.
RECURSIVE build_map(_, _, _, _, _)
build_map(l, buf_idx, width, visible_height, acc) ==
  IF buf_idx >= Len(l) \/ Len(acc) >= visible_height
    THEN SubSeq(acc, 1, Min(Len(acc), visible_height))
    ELSE build_map(l, buf_idx + 1, width, visible_height,
                   acc \o row_entries(wrap_spans(l[buf_idx + 1], width), buf_idx))

\* total.saturating_sub(visible_height)
max_scroll(l, inner) == Max(Len(l) - inner.height, 0)

render_start(l, inner, scroll) == max_scroll(l, inner) - Min(scroll, max_scroll(l, inner))

\* A row map built from the first line of the buffer on.
visual_map_from_top(l, inner, scroll) ==
  build_map(l, 0, Max(inner.width, 1), inner.height, << >>)

visual_map(l, inner, scroll) ==
  build_map(l, render_start(l, inner, scroll), Max(inner.width, 1), inner.height, << >>)

\* TerminalTab::render with the inner area of the block
Render(inner) ==
  /\ UNCHANGED feed_vars
  /\ ~crashed /\ ui_pc = "draw"
  /\ pty_size' = IF inner /= last_inner
                   THEN << Max(inner.height, 1), Max(inner.width, 1) >>
                   ELSE pty_size
  /\ last_inner' = inner
  /\ scroll_offset' = Min(scroll_offset, max_scroll(lines, inner))
  /\ last_render_start' = render_start(lines, inner, scroll_offset)
  /\ last_visual_row_map' = visual_map(lines, inner, scroll_offset)
  /\ ui_pc' = "event"
  /\ UNCHANGED << selection, has_clipboard, clipboard, pty_out, cleared,
                  mouse_phase, crashed >>
  /\ UiUnchanged

\* poll(5 ms) timed out, or the event is one the tab does nothing with
NoEvent ==
  /\ UNCHANGED feed_vars
  /\ ~crashed /\ ui_pc = "event"
  /\ ui_pc' = "draw"
  /\ UNCHANGED << tab_vars, cleared, mouse_phase, crashed >>
  /\ UiUnchanged

\* scroll_up: Ctrl+Up or the mouse wheel
ScrollUp ==
  /\ UNCHANGED feed_vars
  /\ ~crashed /\ ui_pc = "event"
  /\ scroll_offset' = scroll_offset + 3
  /\ ui_pc' = "draw"
  /\ UNCHANGED << selection, last_render_start, last_inner, last_visual_row_map,
                  has_clipboard, clipboard, pty_out, pty_size, cleared,
                  mouse_phase, crashed >>
  /\ UiUnchanged

\* scroll_down: Ctrl+Down or the mouse wheel
ScrollDown ==
  /\ UNCHANGED feed_vars
  /\ ~crashed /\ ui_pc = "event"
  /\ scroll_offset' = Max(scroll_offset - 3, 0)
  /\ ui_pc' = "draw"
  /\ UNCHANGED << selection, last_render_start, last_inner, last_visual_row_map,
                  has_clipboard, clipboard, pty_out, pty_size, cleared,
                  mouse_phase, crashed >>
  /\ UiUnchanged

(***************************************************************************)
(* Keys                                                                    *)
(***************************************************************************)
\* send_bytes: write_all on the pty writer
send_bytes(out, bytes) == out \o bytes

\* char::encode_utf8: the bytes of one char
encode_utf8(c) ==
  IF c < 128 THEN << c >>
  ELSE IF c < 2048 THEN << 192 + (c \div 64), 128 + (c % 64) >>
  ELSE IF c < 65536
    THEN << 224 + (c \div 4096), 128 + ((c \div 64) % 64), 128 + (c % 64) >>
  ELSE << 240 + (c \div 262144), 128 + ((c \div 4096) % 64),
          128 + ((c \div 64) % 64), 128 + (c % 64) >>

\* str::as_bytes: the bytes of a string
RECURSIVE as_bytes(_)
as_bytes(str) == IF str = << >> THEN << >> ELSE encode_utf8(Head(str)) \o as_bytes(Tail(str))

\* A send_string that ends the text with a newline.
send_string_newline(out, str) == send_bytes(out, as_bytes(str) \o << LF >>)

\* send_string(s): self.send_bytes(s.as_bytes())
send_string(out, str) == send_bytes(out, as_bytes(str))

\* paste_from_clipboard: what the pty has been written after it, for a
\* clipboard that is there or not and holds a text or nothing
paste_from_clipboard(out, has_cb, cb) ==
  IF has_cb /\ cb /= << >> THEN send_bytes(out, as_bytes(cb)) ELSE out

\* The assistant stages a command: send_string(text)
SendString(text) ==
  /\ UNCHANGED feed_vars
  /\ ~crashed /\ ui_pc = "event"
  /\ Len(pty_out) < MaxOut
  /\ pty_out' = send_string(pty_out, text)
  /\ ui_pc' = "draw"
  /\ UNCHANGED << scroll_offset, selection, last_render_start, last_inner,
                  last_visual_row_map, has_clipboard, clipboard, pty_size,
                  cleared, mouse_phase, crashed >>
  /\ UiUnchanged

\* Ctrl+V
CtrlV ==
  /\ UNCHANGED feed_vars
  /\ ~crashed /\ ui_pc = "event"
  /\ Len(pty_out) < MaxOut
  /\ pty_out' = paste_from_clipboard(pty_out, has_clipboard, clipboard)
  /\ ui_pc' = "draw"
  /\ UNCHANGED << scroll_offset, selection, last_render_start, last_inner,
                  last_visual_row_map, has_clipboard, clipboard, pty_size,
                  cleared, mouse_phase, crashed >>
  /\ UiUnchanged

\* A copy that takes the text of the anchor's line only.
copy_anchor_line(l, sel, has_cb, cb) ==
  LET text == selected_text(l, << sel[1], << sel[1][1], sel[2][2] >> >>)
  IN  IF text /= None /\ text /= PANIC /\ has_cb THEN text ELSE cb

\* copy_selection: the clipboard content after it
copy_selection(l, sel, has_cb, cb) ==
  LET text == selected_text(l, sel)
  IN  IF text /= None /\ has_cb THEN text ELSE cb

\* Ctrl+C without Shift: copy the selection if any, else send ^C
CtrlC ==
  /\ UNCHANGED feed_vars
  /\ ~crashed /\ ui_pc = "event"
  /\ UNCHANGED << scroll_offset, last_render_start, last_inner,
                  last_visual_row_map, has_clipboard, pty_size, cleared, mouse_phase >>
  /\ UiUnchanged
  /\ IF selection /= None
       THEN IF selected_text(lines, selection) = PANIC
              THEN crashed' = TRUE /\ UNCHANGED << clipboard, selection, pty_out, ui_pc >>
              ELSE /\ clipboard' = copy_selection(lines, selection, has_clipboard, clipboard)
                   /\ selection' = None
                   /\ ui_pc' = "draw"
                   /\ UNCHANGED << pty_out, crashed >>
       ELSE /\ Len(pty_out) < MaxOut
            /\ pty_out' = send_bytes(pty_out, << 3 >>)
            /\ ui_pc' = "draw"
            /\ UNCHANGED << clipboard, selection, crashed >>

\* Ctrl+L: send form feed, then clear_buffer; this step ends after
\* *self.clear_signal.lock().unwrap() = true
CtrlL ==
  /\ UNCHANGED feed_vars
  /\ ~crashed /\ ui_pc = "event"
  /\ Len(pty_out) < MaxOut
  /\ pty_out' = send_bytes(pty_out, << 12 >>)
  /\ clear_signal' = TRUE
  /\ cleared' = TRUE
  /\ ui_pc' = "clear"
  /\ UNCHANGED << pump_vars, lines, alive, scroll_offset, selection,
                  last_render_start, last_inner, last_visual_row_map,
                  has_clipboard, clipboard, pty_size, crashed,
                  reads, tags, appended, mouse_phase, mark, mark_evicted >>

\* The rest of clear_buffer: empty the buffer, reset scroll and selection
ClearLines ==
  /\ UNCHANGED feed_vars
  /\ ~crashed /\ ui_pc = "clear"
  /\ lines' = << >>
  /\ tags' = << >>
  /\ scroll_offset' = 0
  /\ selection' = None
  /\ ui_pc' = "draw"
  /\ UNCHANGED << pump_vars, alive, clear_signal, last_render_start, last_inner,
                  last_visual_row_map, has_clipboard, clipboard, pty_out,
                  pty_size, crashed, reads, appended, cleared, mouse_phase,
                  mark, mark_evicted >>

\* Ctrl+D, Action::Disconnect, Sheesh::disconnect: self.terminal = None drops
\* the TerminalTab, and with it the writer, the tab's master handle and the
\* tab's references to the buffer and the flags. The reader thread keeps
\* what was moved into it: master_reader, a reader cloned from the master,
\* and its own references to the buffer and the flags. The child's handle
\* was dropped at the end of connect, without kill or wait.
Disconnect ==
  /\ UNCHANGED feed_vars
  /\ ~crashed /\ ui_pc = "event"
  /\ ui_pc' = "gone"
  /\ UNCHANGED << pump_vars, shared_vars, tab_vars, crashed, hist_vars >>

\* The child process reads one byte of its input from the pty.
ChildConsume ==
  /\ UNCHANGED feed_vars
  /\ ~crashed /\ pty_out /= << >>
  /\ pty_out' = Tail(pty_out)
  /\ UNCHANGED << pump_vars, shared_vars, scroll_offset, selection,
                  last_render_start, last_inner, last_visual_row_map,
                  has_clipboard, clipboard, pty_size, ui_pc, crashed, hist_vars >>

(***************************************************************************)
(* The assistant's incremental capture                                     *)
(***************************************************************************)
line_count(l) == Len(l)

RECURSIVE join_lines(_)
join_lines(ls) ==
  IF ls = << >> THEN << >>
  ELSE IF Len(ls) = 1 THEN plain_text(ls[1])
  ELSE plain_text(ls[1]) \o << LF >> \o join_lines(Tail(ls))

\* capture_since(from_line)
capture_since(l, from_line) ==
  LET start == Min(from_line, Len(l))
  IN  join_lines(SubSeq(l, start + 1, Len(l)))

\* A snapshot that takes the first lines of the buffer.
visible_text_first(l, last_n) == join_lines(SubSeq(l, 1, Min(last_n, Len(l))))

\* visible_text(last_n): start = len.saturating_sub(last_n)
visible_text(l, last_n) ==
  LET start == Max(Len(l) - last_n, 0)
  IN  join_lines(SubSeq(l, start + 1, Len(l)))

\* A caller records line_count() as its mark.
RecordMark ==
  /\ UNCHANGED feed_vars
  /\ ~crashed
  /\ mark' = line_count(lines)
  /\ mark_evicted' = 0
  /\ UNCHANGED << pump_vars, shared_vars, tab_vars, ui_pc, crashed,
                  reads, tags, appended, cleared, mouse_phase >>

(***************************************************************************)
(* The two threads, lock by lock                                           *)
(***************************************************************************)
\* The same program with every acquisition and every release of a mutex a
\* step of its own, and every blocking call on the pty a state of its own.
\* pump_pc: "read" (inside master_reader.read), "sig_wait", "sig_held",
\* "update" (waiting for the buffer's lock), "lines_held", "exit" (waiting
\* for the lock of alive), "alive_held", "done".
\* ui_pc: "draw" (waiting for the lock of alive in is_alive), "alive_held",
\* "resize", "render_wait", "render_held", "event", "write" and "write_l"
\* (inside write_all), "clear_wait", "clear_sig_held", "clear",
\* "clear_lines_held", "peek_wait", "peek_held".

\* A guard that is never dropped.
release_kept(lk, l) == lk

\* Mutex::lock returning its guard to thread t, and the drop of the guard.
acquire(lk, l, t) == [lk EXCEPT ![l] = t]
release(lk, l) == [lk EXCEPT ![l] = "none"]

pump_locals == << partial, partial_in_buf, ansi_state, complete, partial_line >>

\* A step of the reader thread that moves it from one place to another and
\* at most takes a lock.
PumpMoves(from, to) ==
  /\ ~crashed /\ pump_pc = from
  /\ pump_pc' = to
  /\ UNCHANGED << pump_locals, shared_vars, tab_vars, ui_pc, crashed,
                  tags, appended, cleared, mouse_phase, mark, mark_evicted,
                  stream, fed, probe, app, llm_tab >>

\* A step of the foreground thread that moves it from one place to another
\* and at most takes a lock.
UiMoves(from, to) ==
  /\ ~crashed /\ ui_pc = from
  /\ ui_pc' = to
  /\ UNCHANGED << pump_vars, shared_vars, tab_vars, crashed, hist_vars,
                  stream, fed, probe, app, llm_tab >>

\* master_reader.read returned Ok(n), n > 0
LkReadReturns ==
  /\ reads < MaxReads
  /\ PumpMoves("read", "sig_wait")
  /\ reads' = reads + 1
  /\ UNCHANGED locks

\* let mut sig = clear_clone.lock().unwrap()
LkSigLock ==
  /\ locks["clear_signal"] = "none"
  /\ PumpMoves("sig_wait", "sig_held")
  /\ locks' = acquire(locks, "clear_signal", "pump")
  /\ UNCHANGED reads

\* The clear-signal block to the drop of sig, then the thread's own work on
\* the chunk it read: decode, accumulate, extract, parse.
LkSigUnlock(chunk) ==
  /\ ~crashed /\ pump_pc = "sig_held"
  /\ LET loc == observe_clear(clear_signal,
                  [partial |-> partial, partial_in_buf |-> partial_in_buf,
                   state |-> ansi_state])
         e   == extract_complete(
                  [partial  |-> accumulate(loc.partial, chunk),
                   state    |-> loc.state,
                   complete |-> << >>])
     IN  /\ partial' = e.partial
         /\ partial_in_buf' = loc.partial_in_buf
         /\ ansi_state' = parse_partial(e.partial, e.state).state
         /\ complete' = e.complete
         /\ partial_line' = parse_partial(e.partial, e.state).spans
  /\ clear_signal' = FALSE
  /\ locks' = release(locks, "clear_signal")
  /\ pump_pc' = "update"
  /\ UNCHANGED << lines, alive, tab_vars, ui_pc, crashed, hist_vars,
                  stream, fed, probe, app, llm_tab >>

\* let mut lock = lines_clone.lock().unwrap()
LkLinesLock ==
  /\ locks["lines"] = "none"
  /\ PumpMoves("update", "lines_held")
  /\ locks' = acquire(locks, "lines", "pump")
  /\ UNCHANGED reads

\* The buffer update, to the drop of lock at the end of the match arm.
LkLinesUnlock ==
  /\ ~crashed /\ pump_pc = "lines_held"
  /\ lines' = update_lines(lines, partial_in_buf, complete, partial_line)
  /\ tags' = LET t == Append(pop_partial(tags, partial_in_buf)
                               \o FalseSeq(Len(complete)), TRUE)
             IN  SubSeq(t, Len(t) - Len(lines') + 1, Len(t))
  /\ appended' = appended \o complete
  /\ partial_in_buf' = TRUE
  /\ complete' = << >> /\ partial_line' = << >>
  /\ locks' = release(locks, "lines")
  /\ pump_pc' = "read"
  /\ UNCHANGED << alive, clear_signal, partial, ansi_state, tab_vars, ui_pc,
                  crashed, reads, cleared, mouse_phase, mark, mark_evicted,
                  stream, fed, probe, app, llm_tab >>

\* alive_clone.lock().unwrap()
LkAliveLock ==
  /\ locks["alive"] = "none"
  /\ PumpMoves("exit", "alive_held")
  /\ locks' = acquire(locks, "alive", "pump")
  /\ UNCHANGED reads

\* *guard = false, and the drop of the temporary guard
LkAliveUnlock ==
  /\ ~crashed /\ pump_pc = "alive_held"
  /\ alive' = FALSE
  /\ locks' = release(locks, "alive")
  /\ pump_pc' = "done"
  /\ UNCHANGED << pump_locals, lines, clear_signal, tab_vars, ui_pc, crashed,
                  hist_vars, stream, fed, probe, app, llm_tab >>

\* render: is_alive()
LkIsAliveLock ==
  /\ locks["alive"] = "none"
  /\ UiMoves("draw", "alive_held")
  /\ locks' = acquire(locks, "alive", "ui")

LkIsAliveUnlock ==
  /\ UiMoves("alive_held", "resize")
  /\ locks' = release(locks, "alive")

\* render: the resize of the pty and self.last_inner = inner
LkResize(inner) ==
  /\ ~crashed /\ ui_pc = "resize"
  /\ pty_size' = IF inner /= last_inner
                   THEN << Max(inner.height, 1), Max(inner.width, 1) >>
                   ELSE pty_size
  /\ last_inner' = inner
  /\ ui_pc' = "render_wait"
  /\ UNCHANGED << pump_vars, shared_vars, scroll_offset, selection,
                  last_render_start, last_visual_row_map, has_clipboard,
                  clipboard, pty_out, crashed, hist_vars, feed_vars >>

\* render: let lock = self.lines.lock().unwrap()
LkRenderLock ==
  /\ locks["lines"] = "none"
  /\ UiMoves("render_wait", "render_held")
  /\ locks' = acquire(locks, "lines", "ui")

\* render: the block that builds the rows, to the drop of lock at its end
LkRenderUnlock ==
  /\ ~crashed /\ ui_pc = "render_held"
  /\ scroll_offset' = Min(scroll_offset, max_scroll(lines, last_inner))
  /\ last_render_start' = render_start(lines, last_inner, scroll_offset)
  /\ last_visual_row_map' = visual_map(lines, last_inner, scroll_offset)
  /\ locks' = release(locks, "lines")
  /\ ui_pc' = "event"
  /\ UNCHANGED << pump_vars, shared_vars, selection, last_inner, has_clipboard,
                  clipboard, pty_out, pty_size, crashed, hist_vars,
                  stream, fed, probe, app, llm_tab >>

\* A key that is forwarded: send_bytes enters write_all
LkKey ==
  /\ UiMoves("event", "write")
  /\ UNCHANGED locks

\* Ctrl+L: send_bytes(b"\x0c") enters write_all
LkCtrlL ==
  /\ UiMoves("event", "write_l")
  /\ UNCHANGED locks

\* write_all and flush return once the pty has taken the byte
LkWriteDone(byte, from, to) ==
  /\ ~crashed /\ ui_pc = from
  /\ Len(pty_out) < MaxOut
  /\ pty_out' = send_bytes(pty_out, << byte >>)
  /\ ui_pc' = to
  /\ UNCHANGED << pump_vars, shared_vars, scroll_offset, selection,
                  last_render_start, last_inner, last_visual_row_map,
                  has_clipboard, clipboard, pty_size, crashed, hist_vars,
                  feed_vars >>

\* clear_buffer: self.clear_signal.lock().unwrap()
LkClearSigLock ==
  /\ locks["clear_signal"] = "none"
  /\ UiMoves("clear_wait", "clear_sig_held")
  /\ locks' = acquire(locks, "clear_signal", "ui")

\* clear_buffer: *guard = true, and the drop of the temporary guard
LkClearSigUnlock ==
  /\ ~crashed /\ ui_pc = "clear_sig_held"
  /\ clear_signal' = TRUE
  /\ cleared' = TRUE
  /\ locks' = release(locks, "clear_signal")
  /\ ui_pc' = "clear"
  /\ UNCHANGED << pump_vars, lines, alive, tab_vars, crashed,
                  reads, tags, appended, mouse_phase, mark, mark_evicted,
                  stream, fed, probe, app, llm_tab >>

\* clear_buffer: self.lines.lock().unwrap()
LkClearLinesLock ==
  /\ locks["lines"] = "none"
  /\ UiMoves("clear", "clear_lines_held")
  /\ locks' = acquire(locks, "lines", "ui")

\* clear_buffer: .clear(), the drop of the temporary guard, and the reset of
\* scroll_offset and selection
LkClearLinesUnlock ==
  /\ ~crashed /\ ui_pc = "clear_lines_held"
  /\ lines' = << >>
  /\ tags' = << >>
  /\ scroll_offset' = 0
  /\ selection' = None
  /\ locks' = release(locks, "lines")
  /\ ui_pc' = "draw"
  /\ UNCHANGED << pump_vars, alive, clear_signal, last_render_start, last_inner,
                  last_visual_row_map, has_clipboard, clipboard, pty_out,
                  pty_size, crashed, reads, appended, cleared, mouse_phase,
                  mark, mark_evicted, stream, fed, probe, app, llm_tab >>

\* line_count, capture_since, visible_text, screen_to_buf, selected_text:
\* self.lines.lock().unwrap(), a read of the buffer, and the drop of the guard
\* when the function returns
LkPeekLock ==
  /\ locks["lines"] = "none"
  /\ UiMoves("event", "peek_held")
  /\ locks' = acquire(locks, "lines", "ui")

LkPeekUnlock ==
  /\ UiMoves("peek_held", "draw")
  /\ locks' = release(locks, "lines")

(***************************************************************************)
(* The application: connect and disconnect                                 *)
(***************************************************************************)
\* The calls of TerminalTab::connect that can fail, in their order, and "ok".
ConnectOutcomes == { "openpty", "spawn_command", "take_writer", "try_clone_reader", "ok" }

\* TerminalTab::connect when the named call is the first to fail, or none
\* does: whether it returned Ok, the error, whether the child was spawned and
\* whether the reader thread was started.
TerminalTab_connect(outcome) ==
  [ok     |-> outcome = "ok",
   err    |-> IF outcome = "ok" THEN None ELSE << outcome >>,
   child  |-> outcome \in { "take_writer", "try_clone_reader", "ok" },
   thread |-> outcome = "ok"]

\* A connect that makes the assistant's tab before it opens the session.
Sheesh_connect_llm_first(a, name, outcome) ==
  LET t == TerminalTab_connect(outcome)
  IN  [a EXCEPT !.llm = TRUE,
                !.terminal = t.ok,
                !.error = IF t.ok THEN None ELSE << "PTY error", t.err >>,
                !.state = IF t.ok THEN "Connected" ELSE "Listing",
                !.calls = @ + 1]

\* Sheesh::connect(name)
Sheesh_connect(a, name, outcome) ==
  IF name \notin a.listing
    THEN [a EXCEPT !.error = << "Connection not found", name >>]
    ELSE LET t == TerminalTab_connect(outcome)
             c == [a EXCEPT !.calls = @ + 1,
                            !.children = @ + (IF t.child THEN 1 ELSE 0),
                            !.threads = @ + (IF t.thread THEN 1 ELSE 0)]
         IN  IF ~t.ok
               THEN [c EXCEPT !.error = << "PTY error", t.err >>]
               ELSE [c EXCEPT !.terminal = TRUE, !.llm = TRUE,
                              !.state = "Connected",
                              !.connection_name = name,
                              !.focus = "Terminal"]

\* A disconnect that drops the session and keeps the assistant's tab.
Sheesh_disconnect_keeps_llm(a) ==
  [a EXCEPT !.terminal = FALSE, !.state = "Listing", !.connection_name = None]

\* Sheesh::disconnect
Sheesh_disconnect(a) ==
  [a EXCEPT !.terminal = FALSE, !.llm = FALSE, !.state = "Listing",
            !.connection_name = None]

\* Sheesh::cycle_focus
cycle_focus(a) ==
  IF a.state = "Connected"
    THEN [a EXCEPT !.focus = IF @ = "Terminal" THEN "LLM" ELSE "Terminal"]
    ELSE a

\* A step of Sheesh::handle_event that works on the application alone.
AppStep(a) ==
  /\ app' = a
  /\ UNCHANGED << pump_vars, shared_vars, tab_vars, ui_pc, crashed, hist_vars,
                  stream, fed, probe, locks, llm_tab >>

\* Any key while the error popup is shown dismisses it and does nothing else.
DismissError ==
  /\ app.error /= None
  /\ AppStep([app EXCEPT !.error = None])

\* Enter on a connection of the listing: Action::Confirm, self.connect(name)
Confirm(name, outcome) ==
  /\ app.error = None /\ app.state = "Listing"
  /\ name \in app.listing
  /\ app.calls < MaxConnects
  /\ AppStep(Sheesh_connect(app, name, outcome))

\* Ctrl+D in the terminal tab: Action::Disconnect
AppDisconnect ==
  /\ app.error = None /\ app.state = "Connected" /\ app.focus = "Terminal"
  /\ AppStep(Sheesh_disconnect(app))

\* F2
F2 ==
  /\ app.error = None /\ app.state = "Connected"
  /\ AppStep(cycle_focus(app))

(***************************************************************************)
(* Specifications                                                          *)
(***************************************************************************)
Pump ==
  \/ \E chunk \in Chunks : PumpRead(chunk)
  \/ PumpUpdate
  \/ PumpEof
  \/ PumpSetDead

\* The foreground loop of main: draw, then at most one event.
Loop == NoEvent \/ \E inner \in Inners : Render(inner)

\* The foreground loop in a window that is not resized.
LoopCopy == NoEvent \/ Render(Rect(1, 1, 2, 2))

Mouse ==
  \/ \E col \in Cols, row \in Rows : MouseDown(col, row)
  \/ \E col \in Cols, row \in Rows : MouseDrag(col, row)
  \/ MouseUp

\* The reader thread, rendering and the mouse.
Next == Pump \/ Loop \/ Mouse

Spec == Init /\ [][Next]_vars

\* The same with the reader thread reading "a\nbcd\n" or "\u{e9}".
PumpMouse ==
  \/ \E chunk \in MouseChunks : PumpRead(chunk)
  \/ PumpUpdate
  \/ PumpEof
  \/ PumpSetDead

NextMouse == PumpMouse \/ Loop \/ Mouse

SpecMouse == Init /\ [][NextMouse]_vars

\* The reader thread reading texts and SGR sequences with and without
\* newlines, and Ctrl+L.
PumpStyle ==
  \/ \E chunk \in StyleChunks : PumpRead(chunk)
  \/ PumpUpdate

NextStyle == PumpStyle \/ LoopCopy \/ CtrlL \/ ClearLines \/ ChildConsume

SpecStyle == Init /\ [][NextStyle]_vars

\* The reader thread, rendering and Ctrl+L (clear_buffer).
NextClear == Pump \/ Loop \/ CtrlL \/ ClearLines \/ ChildConsume

SpecClear == Init /\ [][NextClear]_vars

\* The same, with a reader thread that goes on running once it has left its
\* loop: the statement after the loop takes a lock that is_alive() holds only
\* for the time of a read.
FairClear == SpecClear /\ WF_vars(PumpSetDead)

\* The reader thread, rendering and Ctrl+D, with a reader thread that goes
\* on running whenever it is not inside read: the buffer update and the
\* statement after the loop wait only for locks that are held for the time
\* of a mutation. When and whether a read returns is up to the pty and the
\* child process.
NextTeardown == Pump \/ LoopCopy \/ Disconnect

FairTeardown ==
  Init /\ [][NextTeardown]_vars /\ WF_vars(PumpUpdate) /\ WF_vars(PumpSetDead)

\* The reader thread alone, reading what a remote that is not well behaved
\* sends; the thread goes on running when it is about to update the buffer:
\* the buffer's lock is held by others only for the time of a mutation.
PumpHostile ==
  \/ \E chunk \in HostileChunks : PumpRead(chunk)
  \/ PumpUpdate
  \/ PumpEof
  \/ PumpSetDead

FairHostile == Init /\ [][PumpHostile]_vars /\ WF_vars(PumpUpdate)

\* The reader thread and rendering in a window that is resized, also to
\* nothing: block.inner(area) of an area of no rows at (0, 1) and of the
\* empty area at the origin.
ResizeInners == Inners \cup { Rect(1, 1, 2, 0), Rect(0, 0, 0, 0) }

NextResize == PumpMouse \/ NoEvent \/ \E inner \in ResizeInners : Render(inner)

SpecResize == Init /\ [][NextResize]_vars

\* The two threads lock by lock: the reader thread reading "bc\n\u{e9}",
\* rendering in a window that is not resized, forwarded keys, Ctrl+L, and
\* the functions that read the buffer.
PumpLocks ==
  \/ LkReadReturns
  \/ LkSigLock
  \/ \E chunk \in CopyChunks : LkSigUnlock(chunk)
  \/ LkLinesLock
  \/ LkLinesUnlock
  \/ PumpEof
  \/ LkAliveLock
  \/ LkAliveUnlock

UiLocks ==
  \/ LkIsAliveLock
  \/ LkIsAliveUnlock
  \/ LkResize(Rect(1, 1, 2, 2))
  \/ LkRenderLock
  \/ LkRenderUnlock
  \/ NoEvent
  \/ LkKey
  \/ LkWriteDone(97, "write", "draw")
  \/ LkCtrlL
  \/ LkWriteDone(12, "write_l", "clear_wait")
  \/ LkClearSigLock
  \/ LkClearSigUnlock
  \/ LkClearLinesLock
  \/ LkClearLinesUnlock
  \/ LkPeekLock
  \/ LkPeekUnlock

NextLocks == PumpLocks \/ UiLocks \/ ChildConsume

SpecLocks == Init /\ [][NextLocks]_vars

\* The application from its start with a listing of one to three
\* connections: connecting, with every outcome of TerminalTab::connect,
\* dismissing the error, switching the panel and disconnecting. The
\* variables of the tab are not used.
InitApp ==
  /\ InitSession /\ stream = << >> /\ fed = 0 /\ probe = NoProbe
  /\ locks = NoLocks /\ \E names \in (SUBSET HostNames) \ { {} } : app = Sheesh_new(names) /\ llm_tab = LLMTab_new

NextApp ==
  \/ \E name \in HostNames, outcome \in ConnectOutcomes : Confirm(name, outcome)
  \/ DismissError
  \/ AppDisconnect
  \/ F2

SpecApp == InitApp /\ [][NextApp]_vars

\* The reader thread, rendering, the mouse and Ctrl+C, with and without a
\* system clipboard.
InitCopy ==
  /\ lines = << >> /\ alive = TRUE /\ clear_signal = FALSE
  /\ pump_pc = "read" /\ partial = << >> /\ partial_in_buf = FALSE
  /\ ansi_state = AnsiDefault /\ complete = << >> /\ partial_line = << >>
  /\ scroll_offset = 0 /\ selection = None /\ last_render_start = 0
  /\ last_inner = RectDefault /\ last_visual_row_map = << >>
  /\ has_clipboard \in BOOLEAN /\ clipboard = << >>
  /\ pty_out = << >> /\ pty_size = << 40, 120 >>
  /\ ui_pc = "draw" /\ crashed = FALSE
  /\ reads = 0 /\ tags = << >> /\ appended = << >> /\ cleared = FALSE
  /\ mouse_phase = "idle" /\ mark = -1 /\ mark_evicted = 0
  /\ stream = << >> /\ fed = 0 /\ probe = NoProbe /\ locks = NoLocks /\ app = AppConnected /\ llm_tab = LLMTab_new

PumpCopy ==
  \/ \E chunk \in CopyChunks : PumpRead(chunk)
  \/ PumpUpdate

NextCopy == PumpCopy \/ LoopCopy \/ Mouse \/ CtrlC \/ ChildConsume

SpecCopy == InitCopy /\ [][NextCopy]_vars

\* The reader thread, rendering, scrolling, the mouse, staged commands and
\* Ctrl+V, with a system clipboard that holds a text, holds nothing or is
\* not there.
InitPaste ==
  /\ lines = << >> /\ alive = TRUE /\ clear_signal = FALSE
  /\ pump_pc = "read" /\ partial = << >> /\ partial_in_buf = FALSE
  /\ ansi_state = AnsiDefault /\ complete = << >> /\ partial_line = << >>
  /\ scroll_offset = 0 /\ selection = None /\ last_render_start = 0
  /\ last_inner = RectDefault /\ last_visual_row_map = << >>
  /\ has_clipboard \in BOOLEAN /\ clipboard \in InputTexts \cup { << >> }
  /\ pty_out = << >> /\ pty_size = << 40, 120 >>
  /\ ui_pc = "draw" /\ crashed = FALSE
  /\ reads = 0 /\ tags = << >> /\ appended = << >> /\ cleared = FALSE
  /\ mouse_phase = "idle" /\ mark = -1 /\ mark_evicted = 0
  /\ stream = << >> /\ fed = 0 /\ probe = NoProbe /\ locks = NoLocks /\ app = AppConnected /\ llm_tab = LLMTab_new

NextPaste ==
  \/ PumpCopy
  \/ LoopCopy
  \/ ScrollUp
  \/ \E col \in Cols, row \in Rows : MouseDown(col, row)
  \/ \E text \in InputTexts : SendString(text)
  \/ CtrlV
  \/ ChildConsume

SpecPaste == InitPaste /\ [][NextPaste]_vars

\* A stream with SGR sequences delivered in successive reads of any sizes.
InitChunk == InitSession /\ stream \in SgrStreams /\ fed = 0 /\ probe = NoProbe /\ locks = NoLocks /\ app = AppConnected /\ llm_tab = LLMTab_new

NextChunk ==
  \/ \E k \in 1..(Len(stream) - fed) : FeedNext(k)
  \/ PumpUpdate

SpecChunk == InitChunk /\ [][NextChunk]_vars

\* A stream with an escape sequence delivered in successive reads of any
\* sizes, rendering and Ctrl+L.
InitEsc ==
  /\ InitSession /\ stream \in EscStreams /\ fed = 0 /\ probe = NoProbe
  /\ locks = NoLocks /\ app = AppConnected /\ llm_tab = LLMTab_new

NextEsc == NextChunk \/ LoopCopy \/ CtrlL \/ ClearLines \/ ChildConsume

SpecEsc == InitEsc /\ [][NextEsc]_vars

\* A stream with line feeds and carriage returns delivered in successive
\* reads of any sizes; nobody clears.
InitLineFeed ==
  /\ InitSession /\ stream \in LineStreams /\ fed = 0 /\ probe = NoProbe
  /\ locks = NoLocks /\ app = AppConnected /\ llm_tab = LLMTab_new

NextLineFeed ==
  \/ \E k \in 1..(Len(stream) - fed) : FeedNext(k)
  \/ PumpUpdate

SpecLineFeed == InitLineFeed /\ [][NextLineFeed]_vars

\* The reader thread and a caller of line_count and capture_since.
NextCapture == Pump \/ RecordMark

SpecCapture == Init /\ [][NextCapture]_vars

\* A call of selected_text on a buffer and a selection whose positions name
\* lines of the buffer.
InitSelect ==
  /\ InitSession /\ stream = << >> /\ fed = 0 /\ locks = NoLocks /\ app = AppConnected /\ llm_tab = LLMTab_new
  /\ \E specs \in SeqsUpTo(SelLineSpecs, MaxSelLines) :
       \E la \in 0..(Len(specs) - 1), lb \in 0..(Len(specs) - 1) :
         \E oa \in SelOffsets, ob \in SelOffsets :
           probe = [op |-> "selected_text",
                    in |-> [specs |-> specs, sel |-> << << la, oa >>, << lb, ob >> >>],
                    done |-> FALSE, out |-> << >>]

\* The rest of the tab while a pure function is called.
ProbeUnchanged ==
  UNCHANGED << pump_vars, shared_vars, tab_vars, ui_pc, crashed, hist_vars,
               stream, fed, locks, app, llm_tab >>

CallSelectedText ==
  /\ probe.op = "selected_text" /\ ~probe.done
  /\ probe' = [probe EXCEPT !.done = TRUE,
                            !.out = selected_text(as_lines(probe.in.specs), probe.in.sel)]
  /\ ProbeUnchanged

\* A call of visible_text on a buffer, empty or not, for a number of lines
\* from none to more than the buffer holds.
InitVisible ==
  /\ InitSession /\ stream = << >> /\ fed = 0 /\ locks = NoLocks /\ app = AppConnected /\ llm_tab = LLMTab_new
  /\ \E specs \in { << >> } \cup SeqsUpTo(SelLineSpecs, MaxSelLines) :
       \E last_n \in 0..(MaxSelLines + 1) :
         probe = [op |-> "visible_text", in |-> [specs |-> specs, last_n |-> last_n],
                  done |-> FALSE, out |-> << >>]

CallVisibleText ==
  /\ probe.op = "visible_text" /\ ~probe.done
  /\ probe' = [probe EXCEPT !.done = TRUE,
                            !.out = visible_text(as_lines(probe.in.specs), probe.in.last_n)]
  /\ ProbeUnchanged

NextVisible == CallVisibleText

SpecVisible == InitVisible /\ [][NextVisible]_vars

\* A call of parse_ansi on an input and a state.
InitParse ==
  /\ InitSession /\ stream = << >> /\ fed = 0 /\ locks = NoLocks /\ app = AppConnected /\ llm_tab = LLMTab_new
  /\ \E input \in ParseInputs, state \in ParseStates :
       probe = [op |-> "parse_ansi", in |-> [input |-> input, state |-> state],
                done |-> FALSE, out |-> << >>]

CallParseAnsi ==
  /\ probe.op = "parse_ansi" /\ ~probe.done
  /\ probe' = [probe EXCEPT !.done = TRUE,
                            !.out = parse_ansi(probe.in.input, probe.in.state)]
  /\ ProbeUnchanged

NextParse == CallParseAnsi

SpecParse == InitParse /\ [][NextParse]_vars

\* A line put together from pieces is parsed as it is and with a backspace
\* after it, and read by a fresh reader thread with a line feed and a
\* backspace after it.
InitBackspace ==
  /\ InitSession /\ stream = << >> /\ fed = 0 /\ locks = NoLocks
  /\ app = AppConnected /\ llm_tab = LLMTab_new
  /\ \E ts \in { << >> } \cup SeqsUpTo(BsTokens, MaxBsTokens) :
       probe = [op |-> "backspace", in |-> ts, done |-> FALSE, out |-> << >>]

CallParseBackspace ==
  /\ probe.op = "backspace" /\ ~probe.done
  /\ LET input == concat(probe.in)
     IN  probe' =
           [probe EXCEPT
              !.done = TRUE,
              !.out = [before |-> parse_ansi(input, AnsiDefault).spans,
                       after  |-> parse_ansi(input \o << BS >>, AnsiDefault).spans,
                       next   |-> one_read(input \o << LF, BS >>).lines]]
  /\ ProbeUnchanged

NextBackspace == CallParseBackspace

SpecBackspace == InitBackspace /\ [][NextBackspace]_vars

\* The parameters joined with ';', as they stand between "\x1b[" and "m".
RECURSIVE join_params(_)
join_params(pieces) ==
  IF pieces = << >> THEN << >>
  ELSE IF Len(pieces) = 1 THEN pieces[1]
  ELSE pieces[1] \o << 59 >> \o join_params(Tail(pieces))

\* apply_sgr is applied to a parameter string put together from pieces.
InitSgr ==
  /\ InitSession /\ stream = << >> /\ fed = 0 /\ locks = NoLocks
  /\ app = AppConnected /\ llm_tab = LLMTab_new
  /\ \E ps \in SeqsUpTo(SgrPieces, MaxParams) \cup RgbLists \cup TableLists,
       state \in SgrStates :
       probe = [op |-> "apply_sgr", in |-> [pieces |-> ps, state |-> state],
                done |-> FALSE, out |-> << >>]

CallApplySgr ==
  /\ probe.op = "apply_sgr" /\ ~probe.done
  /\ probe' = [probe EXCEPT !.done = TRUE,
                            !.out = apply_sgr(join_params(probe.in.pieces),
                                              probe.in.state)]
  /\ ProbeUnchanged

NextSgr == CallApplySgr

SpecSgr == InitSgr /\ [][NextSgr]_vars

\* The pieces without the k-th.
without(ts, k) == SubSeq(ts, 1, k - 1) \o SubSeq(ts, k + 1, Len(ts))

\* An input put together from pieces is parsed whole and with each of its
\* pieces left out in turn.
InitFrame ==
  /\ InitSession /\ stream = << >> /\ fed = 0 /\ locks = NoLocks
  /\ app = AppConnected /\ llm_tab = LLMTab_new
  /\ \E ts \in SeqsUpTo(FrameTokens, MaxFrameTokens), state \in ParseStates :
       probe = [op |-> "frame", in |-> [tokens |-> ts, state |-> state],
                done |-> FALSE, out |-> << >>]

CallParseFrame ==
  /\ probe.op = "frame" /\ ~probe.done
  /\ probe' =
       [probe EXCEPT
          !.done = TRUE,
          !.out = [whole |-> parse_ansi(concat(probe.in.tokens), probe.in.state),
                   less  |-> [k \in 1..Len(probe.in.tokens) |->
                                parse_ansi(concat(without(probe.in.tokens, k)),
                                           probe.in.state)]]]
  /\ ProbeUnchanged

NextFrame == CallParseFrame

SpecFrame == InitFrame /\ [][NextFrame]_vars

\* The inner rectangles of a view that is scrolled: two columns and one or
\* two rows, one column and three rows, no row, no column.
ViewInners ==
  Inners \cup { Rect(1, 1, 1, 3), Rect(1, 1, 2, 0), Rect(1, 1, 0, 1) }

\* The reader thread, the render passes and the mouse wheel.
NextView ==
  \/ PumpMouse
  \/ NoEvent
  \/ \E inner \in ViewInners : Render(inner)
  \/ ScrollUp
  \/ ScrollDown

SpecView == Init /\ [][NextView]_vars

\* The reader thread, the render passes, the mouse and the clear key.
PumpHold ==
  \/ \E chunk \in HoldChunks : PumpRead(chunk)
  \/ PumpUpdate

NextHold ==
  \/ PumpHold
  \/ LoopCopy
  \/ Mouse
  \/ CtrlL
  \/ ClearLines

SpecHold == Init /\ [][NextHold]_vars

\* A stream with chars of more than one byte delivered in successive reads
\* of any sizes.
InitUtf8 ==
  /\ InitSession /\ stream \in Utf8Streams /\ fed = 0 /\ probe = NoProbe
  /\ locks = NoLocks /\ app = AppConnected /\ llm_tab = LLMTab_new

NextUtf8 ==
  \/ \E k \in 1..(Len(stream) - fed) : FeedNext(k)
  \/ PumpUpdate

SpecUtf8 == InitUtf8 /\ [][NextUtf8]_vars

\* A call of wrap_spans on a line, in every division into runs, and a width
\* of at least one column (render passes inner.width.max(1)).
InitWrap ==
  /\ InitSession /\ stream = << >> /\ fed = 0 /\ locks = NoLocks /\ app = AppConnected /\ llm_tab = LLMTab_new
  /\ \E text \in WrapTexts, width \in 1..MaxWidth :
       \E cuts \in SUBSET (1..(Len(text) - 1)) :
         probe = [op |-> "wrap_spans",
                  in |-> [text |-> text, spans |-> cut_runs(text, cuts, 1, FALSE),
                          width |-> width],
                  done |-> FALSE, out |-> << >>]

CallWrapSpans ==
  /\ probe.op = "wrap_spans" /\ ~probe.done
  /\ probe' = [probe EXCEPT !.done = TRUE,
                            !.out = wrap_spans(probe.in.spans, probe.in.width)]
  /\ ProbeUnchanged

NextWrap == CallWrapSpans

SpecWrap == InitWrap /\ [][NextWrap]_vars

NextSelect == CallSelectedText

SpecSelect == InitSelect /\ [][NextSelect]_vars

(***************************************************************************)
(* Scrollback buffer                                                       *)
(***************************************************************************)
\* C1: in every state (the buffer lock is held only inside the update step,
\* so every state is a snapshot a reader can take) the buffer holds at most
\* MAX_LINES lines.
C1_LengthWithinCapacity == Len(lines) <= MAX_LINES

\* An update that had to evict: the buffer is full and more lines than fit
\* were appended.
C1_Witness == Len(lines) = MAX_LINES /\ Len(appended) >= MAX_LINES

\* C2: with no clear so far, the buffer is the newest MAX_LINES entries of
\* everything the pump appended (the completed lines in order, then the
\* partial line), and once more than MAX_LINES complete lines were appended
\* it holds exactly MAX_LINES lines.
C2_NewestLinesKept ==
  (~cleared /\ lines /= << >>) =>
    LET all == Append(appended, lines[Len(lines)])
        n   == Min(Len(all), MAX_LINES)
    IN  /\ lines = SubSeq(all, Len(all) - n + 1, Len(all))
        /\ tags[Len(tags)]
        /\ (Len(appended) > MAX_LINES => Len(lines) = MAX_LINES)

C2_Witness == ~cleared /\ Len(appended) > MAX_LINES /\ pump_pc = "read"

\* C3: whenever the foreground thread is not inside clear_buffer, no entry
\* that was pushed as a partial line stands anywhere but at the end of the
\* buffer.
C3_PartialOnlyLast ==
  ui_pc /= "clear" => \A k \in 1..Len(tags) : tags[k] => k = Len(tags)

(***************************************************************************)
(* Chunk boundaries                                                        *)
(***************************************************************************)
\* C4: once a stream holding SGR sequences has been read completely, in
\* reads split at any points, the buffer and the persistent AnsiState are
\* those of reading the stream in one read.
C4_ChunkBoundaryInvariance ==
  (fed > 0 /\ fed = Len(stream) /\ pump_pc = "read") =>
    /\ lines = one_read(stream).lines
    /\ ansi_state = one_read(stream).state

\* "\x1b[31mH" read in three reads: at least one read ends inside the
\* sequence, and H is red.
C4_Witness ==
  /\ stream = << ESC, 91, 51, 49, 109, 72 >>
  /\ fed = Len(stream) /\ reads = 3 /\ pump_pc = "read"
  /\ lines = << << StyledSpan(<< 72 >>, to_style([AnsiDefault EXCEPT !.fg = Named("Red")])) >> >>

(***************************************************************************)
(* Selection                                                               *)
(***************************************************************************)
\* A BufPos names an existing line and a byte offset within it on a char
\* boundary.
valid_pos(l, pos) ==
  /\ pos[1] < Len(l)
  /\ pos[2] <= str_len(plain_text(l[pos[1] + 1]))
  /\ is_char_boundary(plain_text(l[pos[1] + 1]), pos[2])

\* C5: when the foreground loop is about to handle an event, resolving any
\* screen coordinate performs no out-of-range access and yields no position
\* or a valid one.
C5_ResolveInRange ==
  (ui_pc = "event" /\ ~crashed) =>
    \A col \in Cols, row \in Rows :
      LET res == screen_to_buf(col, row)
      IN  res /= PANIC /\ (res /= None => valid_pos(lines, res))

\* C6: capture_since(mark) is the text of exactly the entries pushed after
\* the mark was recorded, i.e. those whose position, counted from the first
\* line ever buffered, is beyond the count the mark recorded.
C6_CaptureSinceExact ==
  mark >= 0 =>
    capture_since(lines, mark)
      = join_lines(SubSeq(lines, Max(mark - mark_evicted, 0) + 1, Len(lines)))

\* C7: after a press and a release with no drag in between there is no
\* active selection.
C7_ClickLeavesNoSelection ==
  mouse_phase \in {"clicked", "clicked_out"} => selection = None

\* A click on a mapped row of a buffer the pump has written to.
C7_Witness == mouse_phase = "clicked" /\ reads > 0 /\ lines /= << >>

\* C8: the copy key with a selection clears it, writes nothing to the session
\* and sets the clipboard (when there is one) to the extracted text (when
\* there is any); without a selection it writes exactly the byte 0x03 and
\* copies nothing.  It never panics.
C8_CopyKey ==
  [][CtrlC =>
       /\ ~crashed'
       /\ IF selection /= None
            THEN /\ selection' = None
                 /\ pty_out' = pty_out
                 /\ clipboard' =
                      IF has_clipboard /\ selected_text(lines, selection) /= None
                        THEN selected_text(lines, selection) ELSE clipboard
            ELSE /\ pty_out' = Append(pty_out, 3)
                 /\ clipboard' = clipboard
                 /\ selection' = None]_vars

\* A text was copied, and later ^C went to the session.
C8_Witness == clipboard /= << >> /\ selection = None /\ pty_out = << 3 >>

\* C9 as stated: on every step of the foreground loop after which the latest
\* mouse event is a press (every press step is one), a press that resolves
\* sets anchor and cursor to the position; a press that does not resolve
\* leaves the selection as it was.
C9_PressOutsideIgnored ==
  [][(ui_pc = "event" /\ mouse_phase' \in {"pressed", "pressed_out"}) =>
       \A col \in Cols, row \in Rows :
         (MouseDown(col, row) /\ ~crashed') =>
           selection' = IF screen_to_buf(col, row) = None THEN selection
                        ELSE << screen_to_buf(col, row), screen_to_buf(col, row) >>]_vars

\* C9 amended: a press that resolves sets anchor and cursor to the position;
\* a press that does not resolve clears the selection.
C9_PressSetsOrClears ==
  [][(ui_pc = "event" /\ mouse_phase' \in {"pressed", "pressed_out"}) =>
       \A col \in Cols, row \in Rows :
         (MouseDown(col, row) /\ ~crashed') =>
           selection' = IF screen_to_buf(col, row) = None THEN None
                        ELSE << screen_to_buf(col, row), screen_to_buf(col, row) >>]_vars

\* A press that did not resolve has been handled while the buffer held lines.
C9_WitnessOutside == mouse_phase = "pressed_out" /\ selection = None /\ lines /= << >>

\* C10: a drag with an active selection and a coordinate that resolves moves
\* the cursor there and keeps the anchor; otherwise it leaves the selection
\* unchanged; and on every step after which a drag is the latest mouse event
\* (every drag step is one) the anchor of an active selection stays what it
\* was.
C10_DragMovesOnlyCursor ==
  [][mouse_phase' = "dragged" =>
       /\ \A col \in Cols, row \in Rows :
            (MouseDrag(col, row) /\ ~crashed') =>
              selection' = IF selection /= None /\ screen_to_buf(col, row) /= None
                             THEN << selection[1], screen_to_buf(col, row) >>
                             ELSE selection
       /\ selection /= None =>
            (selection' /= None /\ selection'[1] = selection[1])]_vars

\* A drag has moved the cursor away from the anchor.
C10_Witness ==
  mouse_phase = "dragged" /\ selection /= None /\ selection[1] /= selection[2]

(***************************************************************************)
(* Extraction                                                              *)
(***************************************************************************)
\* C11: on a buffer of one non-empty line, the selection from (0, 0) to
\* (0, len), len being the byte length of the line's text, extracts exactly
\* the line's text.
C11_WholeLine ==
  (probe.op = "selected_text" /\ probe.done /\ Len(probe.in.specs) = 1
     /\ probe.in.specs[1][1] /= << >>
     /\ probe.in.sel = << << 0, 0 >>, << 0, str_len(probe.in.specs[1][1]) >> >>) =>
    probe.out = probe.in.specs[1][1]

\* The line "\u{e9}b" held in two styled runs has been extracted whole.
C11_Witness ==
  /\ probe.op = "selected_text" /\ probe.done
  /\ probe.in.specs = << << << 233, 98 >>, 1 >> >>
  /\ probe.in.sel = << << 0, 0 >>, << 0, 3 >> >>
  /\ probe.out = << 233, 98 >>

pos_lt(a, b) == a[1] < b[1] \/ (a[1] = b[1] /\ a[2] < b[2])

\* The chars of text, the line li, from the k-th on that the range from s to e
\* covers: those whose bytes end after s and start before e.
RECURSIVE ref_chars(_, _, _, _, _)
ref_chars(text, k, li, s, e) ==
  IF k > Len(text) THEN << >>
  ELSE (IF /\ pos_lt(s, << li, str_len(SubSeq(text, 1, k)) >>)
           /\ pos_lt(<< li, str_len(SubSeq(text, 1, k - 1)) >>, e)
          THEN << text[k] >> ELSE << >>)
         \o ref_chars(text, k + 1, li, s, e)

RECURSIVE ref_lines(_, _, _, _)
ref_lines(texts, li, s, e) ==
  IF li > e[1] THEN << >>
  ELSE ref_chars(texts[li + 1], 1, li, s, e)
         \o (IF li < e[1] THEN << LF >> ELSE << >>)
         \o ref_lines(texts, li + 1, s, e)

\* The reference extraction: the covered text of the lines from the first
\* position to the last, joined with LF; no selection when that is empty.
ref_extract(texts, sel) ==
  LET s   == IF pos_lt(sel[2], sel[1]) THEN sel[2] ELSE sel[1]
      e   == IF pos_lt(sel[2], sel[1]) THEN sel[1] ELSE sel[2]
      cat == ref_lines(texts, s[1], s, e)
  IN  IF cat = << >> THEN None ELSE cat

\* C12: selected_text returns the reference extraction, the same for a
\* selection and for its mirror image, and never the empty string.
C12_ReferenceExtraction ==
  (probe.op = "selected_text" /\ probe.done) =>
    LET texts == [k \in 1..Len(probe.in.specs) |-> probe.in.specs[k][1]]
        sel   == probe.in.sel
    IN  /\ probe.out = ref_extract(texts, sel)
        /\ probe.out = selected_text(as_lines(probe.in.specs), << sel[2], sel[1] >>)
        /\ probe.out /= << >>

\* A selection made cursor first, from inside the two-byte char of the first
\* line over an empty line to the third line, has been extracted.
C12_Witness ==
  /\ probe.op = "selected_text" /\ probe.done
  /\ probe.in.specs = << << << 233, 98 >>, 1 >>, << << >>, 0 >>, << << 97 >>, 0 >> >>
  /\ probe.in.sel = << << 2, 1 >>, << 0, 1 >> >>
  /\ probe.out = << 233, 98, LF, LF, 97 >>

\* An empty extraction has been answered with no selection.
C12_WitnessEmpty ==
  /\ probe.op = "selected_text" /\ probe.done
  /\ probe.in.sel[1] /= probe.in.sel[2]
  /\ probe.out = None

(***************************************************************************)
(* The parser                                                              *)
(***************************************************************************)
has_char(input, c) == \E k \in 1..Len(input) : input[k] = c

all_default(spans) == \A k \in 1..Len(spans) : spans[k].style = StyleDefault

\* C13 as stated: an input without ESC, parsed from the default state, comes
\* out as runs of the default style whose texts together are the input.
C13_NoEscRoundTrip ==
  (probe.op = "parse_ansi" /\ probe.done /\ probe.in.state = AnsiDefault
     /\ ~has_char(probe.in.input, ESC)) =>
    /\ plain_text(probe.out.spans) = probe.in.input
    /\ all_default(probe.out.spans)

\* C13 amended: an input without ESC and without any control character other
\* than tab, parsed from the default state, comes out as runs of the default
\* style whose texts together are the input.
C13_PrintableRoundTrip ==
  (probe.op = "parse_ansi" /\ probe.done /\ probe.in.state = AnsiDefault
     /\ \A k \in 1..Len(probe.in.input) :
          probe.in.input[k] = TAB \/ ~is_control(probe.in.input[k])) =>
    /\ plain_text(probe.out.spans) = probe.in.input
    /\ all_default(probe.out.spans)

\* "a", tab and a two-byte char have come out as they went in.
C13_Witness ==
  /\ probe.op = "parse_ansi" /\ probe.done /\ probe.in.state = AnsiDefault
  /\ probe.in.input = << 97, TAB, 233 >>
  /\ probe.out.spans = << StyledSpan(<< 97, TAB, 233 >>, StyleDefault) >>

\* C14: the runs parse_ansi returns never have an empty text and no two
\* neighbours have the same style; "\x1b[31mHELLO\x1b[0m world" gives the
\* runs ("HELLO", red) and (" world", default).
C14_RunsMerged ==
  (probe.op = "parse_ansi" /\ probe.done) =>
    LET spans == probe.out.spans
    IN  /\ \A k \in 1..Len(spans) : spans[k].text /= << >>
        /\ \A k \in 1..(Len(spans) - 1) : spans[k].style /= spans[k + 1].style
        /\ (probe.in.input = HelloWorld /\ probe.in.state = AnsiDefault) =>
             spans = << StyledSpan(<< 72, 69, 76, 76, 79 >>,
                                   to_style([AnsiDefault EXCEPT !.fg = Named("Red")])),
                        StyledSpan(<< 32, 119, 111, 114, 108, 100 >>, StyleDefault) >>

\* Starting in red, "a\x1b[31ma": the repeated SGR sequence leaves the style
\* as it is and the two texts come out as one run.
C14_Witness ==
  /\ probe.op = "parse_ansi" /\ probe.done
  /\ probe.in.state = [AnsiDefault EXCEPT !.fg = Named("Red")]
  /\ probe.in.input = << 97, ESC, 91, 51, 49, 109, 97 >>
  /\ probe.out.spans
       = << StyledSpan(<< 97, 97 >>, to_style([AnsiDefault EXCEPT !.fg = Named("Red")])) >>

\* The example has been parsed.
C14_WitnessHello ==
  probe.op = "parse_ansi" /\ probe.done /\ probe.in.input = HelloWorld
    /\ probe.in.state = AnsiDefault /\ Len(probe.out.spans) = 2

(***************************************************************************)
(* The persistent style                                                    *)
(***************************************************************************)
\* The state in force after the first k of the pieces, starting from start.
RECURSIVE ref_state(_, _, _)
ref_state(pieces, k, start) ==
  IF k = 0 THEN start
  ELSE parse_ansi(pieces[k], ref_state(pieces, k - 1, start)).state

\* C15: in every read cycle, with the accumulated data cut at its newlines
\* into completed lines and a rest, and starting from the persistent state
\* (the default state after a clear request): each completed line is styled
\* from the state its predecessor ended in; the persistent state becomes the
\* state the last completed line ended in, so it is unchanged when there is no
\* newline and when no completed line holds an escape sequence; the rest is
\* styled from that state and does not advance it.
C15_StateAdvancesOnCompleteLines ==
  [][(pump_pc = "read" /\ pump_pc' = "update") =>
       \A chunk \in StyleChunks : PumpRead(chunk) =>
         LET start  == IF clear_signal THEN AnsiDefault ELSE ansi_state
             acc    == (IF clear_signal THEN << >> ELSE partial) \o from_utf8_lossy(chunk)
             pieces == split(acc, LF)
             n      == Len(pieces) - 1
         IN  /\ Len(complete') = n
             /\ \A k \in 1..n :
                  complete'[k] = parse_ansi(pieces[k], ref_state(pieces, k - 1, start)).spans
             /\ ansi_state' = ref_state(pieces, n, start)
             /\ n = 0 => ansi_state' = start
             /\ (\A k \in 1..n : ~has_char(pieces[k], ESC)) => ansi_state' = start
             /\ partial_line' = parse_ansi(pieces[n + 1], ansi_state').spans]_vars

\* A read cycle without a newline has styled its partial line red and left
\* the persistent state at the default.
C15_Witness ==
  /\ pump_pc = "update" /\ complete = << >> /\ ansi_state = AnsiDefault
  /\ partial_line /= << >>
  /\ partial_line[1].style = to_style([AnsiDefault EXCEPT !.fg = Named("Red")])

\* A completed line has advanced the persistent state to red, and a later
\* line without escape sequences is styled from it.
C15_WitnessAdvanced ==
  /\ pump_pc = "update" /\ ansi_state = [AnsiDefault EXCEPT !.fg = Named("Red")]
  /\ partial_line = << StyledSpan(<< 122 >>, to_style(ansi_state)) >>

(***************************************************************************)
(* Wrapping                                                                *)
(***************************************************************************)
\* The chars of a row: the texts of its spans, one after the other.
RECURSIVE row_text(_)
row_text(chunk) == IF chunk = << >> THEN << >> ELSE Head(chunk).text \o row_text(Tail(chunk))

\* The chars of the first n rows.
RECURSIVE rows_text(_, _)
rows_text(rows, n) ==
  IF n = 0 THEN << >> ELSE rows_text(rows, n - 1) \o row_text(rows[n].chunk)

\* The bytes of the UTF-8 encoding of the chars of s.
RECURSIVE utf8_bytes(_)
utf8_bytes(s) == IF s = << >> THEN 0 ELSE len_utf8(Head(s)) + utf8_bytes(Tail(s))

\* C16: a line of k * W chars, k >= 1, wraps at width W into exactly k rows;
\* an empty line wraps into exactly one empty row that starts at offset 0.
C16_ExactMultipleOfWidth ==
  (probe.op = "wrap_spans" /\ probe.done) =>
    LET n == Len(probe.in.text)
        W == probe.in.width
    IN  /\ (n > 0 /\ n % W = 0) => Len(probe.out) = n \div W
        /\ n = 0 => probe.out = << [chunk |-> << >>, start |-> 0] >>

\* A line of four chars in three runs has been wrapped at width 2 into two
\* rows, the second starting after "a\u{20ac}".
C16_Witness ==
  /\ probe.op = "wrap_spans" /\ probe.done /\ probe.in.width = 2
  /\ probe.in.text = << 97, 8364, 233, 97 >> /\ Len(probe.in.spans) = 3
  /\ Len(probe.out) = 2 /\ probe.out[2].start = 4

\* An empty line has been wrapped.
C16_WitnessEmpty ==
  probe.op = "wrap_spans" /\ probe.done /\ probe.in.text = << >> /\ Len(probe.out) = 1

\* C17: the rows hold at most W chars and all but the last exactly W; the
\* first starts at offset 0 and every row starts on a char boundary, at the
\* byte offset of the line at which the chars of the rows before it end; the
\* rows' texts together are the line's text.
C17_RowsPartitionLine ==
  (probe.op = "wrap_spans" /\ probe.done) =>
    LET rows == probe.out
        text == probe.in.text
        W    == probe.in.width
    IN  /\ Len(rows) >= 1
        /\ \A k \in 1..Len(rows) :
             /\ Len(row_text(rows[k].chunk)) <= W
             /\ k < Len(rows) => Len(row_text(rows[k].chunk)) = W
             /\ is_char_boundary(text, rows[k].start)
             /\ k > 1 => rows[k].start = rows[k - 1].start
                                           + utf8_bytes(row_text(rows[k - 1].chunk))
             /\ chars_before(text, rows[k].start) = Len(rows_text(rows, k - 1))
        /\ rows[1].start = 0
        /\ rows_text(rows, Len(rows)) = text

\* Three chars of three, two and one byte have been wrapped at width 1.
C17_Witness ==
  /\ probe.op = "wrap_spans" /\ probe.done /\ probe.in.width = 1
  /\ probe.in.text = << 8364, 233, 97 >>
  /\ Len(probe.out) = 3 /\ probe.out[2].start = 3 /\ probe.out[3].start = 5

(***************************************************************************)
(* The end of the session                                                  *)
(***************************************************************************)
\* C18: once is_alive() is false it stays false, the reader thread has ended
\* and takes no further step, and the buffer changes only by clear_buffer,
\* which empties it.
C18_DeadIsTerminal ==
  [][ ~alive =>
        /\ ~alive'
        /\ pump_pc = "done" /\ UNCHANGED pump_vars
        /\ lines' /= lines => (ui_pc = "clear" /\ lines' = << >>) ]_vars

\* The session is dead, with the lines read before the end of the output
\* still in the buffer, and the foreground loop has gone on drawing.
C18_Witness ==
  /\ ~alive /\ pump_pc = "done" /\ Len(lines) = MAX_LINES /\ ~cleared
  /\ last_inner /= RectDefault /\ ui_pc = "event"

\* The buffer of a dead session has been cleared.
C18_WitnessCleared ==
  ~alive /\ cleared /\ lines = << >> /\ appended /= << >> /\ ui_pc = "draw"
     /\ ~clear_signal

\* A step of a session whose reader thread has left its loop: the thread
\* does not go back into the loop, and nothing is read or parsed.
NoReadAfterEof ==
  pump_pc \in {"exit", "done"} =>
    /\ pump_pc' \in {"exit", "done"}
    /\ reads' = reads
    /\ UNCHANGED << partial, partial_in_buf, ansi_state, complete, partial_line >>
    /\ lines' /= lines => ui_pc = "clear"

\* C19: is_alive() is true from the connect until the reader thread has left
\* its loop and cleared the flag; once a read has returned EOF or an error
\* the thread reads no more, and is_alive() eventually becomes false.
C19_EofEndsThePump ==
  /\ [](alive <=> pump_pc /= "done")
  /\ [][NoReadAfterEof]_vars
  /\ (pump_pc = "exit" ~> ~alive)

\* A read has returned EOF after two reads of data, and the flag is still
\* set.
C19_Witness ==
  pump_pc = "exit" /\ alive /\ reads = 2 /\ lines /= << >>

\* The flag has been cleared after an EOF on the first read.
C19_WitnessDead ==
  pump_pc = "done" /\ ~alive /\ reads = 0 /\ lines = << >> /\ ui_pc = "event"

\* C20: after a disconnect the reader thread eventually leaves its loop and
\* ends.
C20_PumpEndsAfterDisconnect == (ui_pc = "gone") ~> (pump_pc = "done")

\* The TerminalTab was dropped while the reader thread was inside read.
C20_Witness == ui_pc = "gone" /\ pump_pc = "read" /\ alive /\ lines /= << >>

(***************************************************************************)
(* Clear requests                                                          *)
(***************************************************************************)
\* A read cycle of the reader thread: it leaves the flag clear; when it found
\* the flag set, its results are those of a first read cycle of a fresh
\* thread on the chunk alone; when it found the flag unset, the accumulator,
\* the state and partial_in_buf go into the cycle as they were.
ClearObservedInCycle(chunk) ==
  PumpRead(chunk) =>
    /\ clear_signal' = FALSE
    /\ IF clear_signal
         THEN /\ partial_in_buf' = FALSE
              /\ Append(complete', partial_line') = one_read(chunk).lines
              /\ ansi_state' = one_read(chunk).state
              /\ find_lf(chunk) = 0 => partial' = from_utf8_lossy(chunk)
         ELSE /\ partial_in_buf' = partial_in_buf
              /\ find_lf(chunk) = 0 =>
                   /\ partial' = partial \o from_utf8_lossy(chunk)
                   /\ ansi_state' = ansi_state
                   /\ complete' = << >>
              /\ find_lf(chunk) > 0 =>
                   complete'[1] =
                     parse_ansi(partial \o SubSeq(chunk, 1, find_lf(chunk) - 1),
                                ansi_state).spans

\* C21: the read cycle that finds the clear flag set empties the
\* accumulator, forgets the partial entry, resets the style state and clears
\* the flag before it processes its chunk, so that nothing accumulated before
\* is in the lines it produces; a cycle that finds the flag unset changes
\* none of these before it processes its chunk.
C21_ClearObservedOnce == [][\A chunk \in StyleChunks : ClearObservedInCycle(chunk)]_vars

\* The second read found the flag set while "x" was in the accumulator and
\* its partial entry still in the buffer: the cycle produced "z" alone.
C21_Witness ==
  /\ pump_pc = "update" /\ ui_pc = "clear" /\ reads = 2
  /\ ~partial_in_buf /\ ~clear_signal
  /\ Len(lines) = 1 /\ plain_text(lines[1]) = << 120 >>
  /\ partial = << 122 >> /\ plain_text(partial_line) = << 122 >>

\* A read found the flag unset after an earlier read had found it set.
C21_WitnessOnce ==
  /\ pump_pc = "update" /\ cleared /\ reads = 3 /\ partial_in_buf
  /\ ~clear_signal /\ lines = << >> /\ ui_pc = "draw"
  /\ partial = << 122, 122 >>

(***************************************************************************)
(* Lock discipline                                                         *)
(***************************************************************************)
\* The locks thread t holds.
Held(t) == { l \in LockNames : locks[l] = t }

\* The thread is inside a blocking read from or write to the pty.
InPtyIo(t) ==
  IF t = "pump" THEN pump_pc = "read" ELSE ui_pc \in { "write", "write_l" }

\* The thread is waiting for lock l.
WaitsFor(t, l) ==
  IF t = "pump"
    THEN \/ pump_pc = "sig_wait" /\ l = "clear_signal"
         \/ pump_pc = "update" /\ l = "lines"
         \/ pump_pc = "exit" /\ l = "alive"
    ELSE \/ ui_pc = "draw" /\ l = "alive"
         \/ ui_pc \in { "render_wait", "clear" } /\ l = "lines"
         \/ ui_pc = "clear_wait" /\ l = "clear_signal"

\* The thread is at a step that drops the guard of lock l: a step that waits
\* for nothing.
AtUnlock(t, l) ==
  IF t = "pump"
    THEN \/ pump_pc = "sig_held" /\ l = "clear_signal"
         \/ pump_pc = "lines_held" /\ l = "lines"
         \/ pump_pc = "alive_held" /\ l = "alive"
    ELSE \/ ui_pc = "alive_held" /\ l = "alive"
         \/ ui_pc \in { "render_held", "clear_lines_held", "peek_held" } /\ l = "lines"
         \/ ui_pc = "clear_sig_held" /\ l = "clear_signal"

\* C22: no thread holds a lock while it is inside a read from or a write to
\* the pty, no thread holds two locks, a thread that holds a lock waits for
\* none and is at the step that drops it, so that two threads never wait for
\* each other, and
\* a write that the pty has room for can complete whatever the reader thread
\* is doing.
C22_LockDiscipline ==
  /\ \A t \in { "pump", "ui" } :
       /\ Cardinality(Held(t)) <= 1
       /\ InPtyIo(t) => Held(t) = {}
       /\ \A l \in Held(t) : AtUnlock(t, l)
       /\ Held(t) /= {} => \A l \in LockNames : ~WaitsFor(t, l)
  /\ (ui_pc \in { "write", "write_l" } /\ Len(pty_out) < MaxOut) =>
       ENABLED (LkWriteDone(97, "write", "draw")
                  \/ LkWriteDone(12, "write_l", "clear_wait"))

\* The foreground thread is inside write_all while the reader thread holds
\* the buffer's lock.
C22_Witness ==
  /\ ui_pc = "write_l" /\ pump_pc = "lines_held" /\ locks["lines"] = "pump"
  /\ Len(pty_out) < MaxOut /\ reads = 2

\* The foreground thread waits for the buffer's lock, which the reader
\* thread holds, in clear_buffer.
C22_WitnessContended ==
  /\ ui_pc = "clear" /\ locks["lines"] = "pump" /\ clear_signal
  /\ WaitsFor("ui", "lines")

(***************************************************************************)
(* Resize                                                                  *)
(***************************************************************************)
\* C23: after every render pass the size last given to the pty is that of the
\* viewport just rendered: max(1, height) rows and max(1, width) columns.
C23_PtySizeFollowsViewport ==
  ui_pc = "event" =>
    pty_size = << Max(last_inner.height, 1), Max(last_inner.width, 1) >>

\* A render pass has drawn a viewport of two columns and no rows.
C23_Witness ==
  ui_pc = "event" /\ last_inner = Rect(1, 1, 2, 0) /\ pty_size = << 1, 2 >>

(***************************************************************************)
(* Connect failures                                                        *)
(***************************************************************************)
\* A connect in which a call of TerminalTab::connect fails: one call is made,
\* no reader thread is started, the application stays in the listing without
\* terminal and assistant tabs, and the error is recorded.
ConnectFailure(name, outcome) ==
  (outcome /= "ok" /\ Confirm(name, outcome)) =>
    /\ app'.calls = app.calls + 1
    /\ app'.threads = app.threads
    /\ app'.state = "Listing" /\ ~app'.terminal /\ ~app'.llm
    /\ app'.error = << "PTY error", << outcome >> >>

\* C24: when opening the pty, spawning the child or obtaining the writer or
\* the reader fails, connect makes no second attempt and starts no reader
\* thread, and the application stays in the listing, with no terminal
\* session and no assistant tab, and records the error.
C24_ConnectFailureIsSynchronous ==
  [][\A name \in HostNames, outcome \in ConnectOutcomes :
       ConnectFailure(name, outcome)]_vars

\* A connect has failed after an earlier session was connected and
\* disconnected.
C24_Witness ==
  /\ app.state = "Listing" /\ app.error = << "PTY error", << "take_writer" >> >>
  /\ app.calls = 2 /\ app.threads = 1 /\ ~app.terminal /\ ~app.llm

(***************************************************************************)
(* Robustness of the reader thread                                         *)
(***************************************************************************)
\* A string: a sequence of Unicode scalar values.
IsString(t) ==
  \A k \in 1..Len(t) : t[k] \in 0..1114111 /\ t[k] \notin 55296..57343

\* A line: a sequence of spans of non-empty strings.
IsLine(line) ==
  \A k \in 1..Len(line) : line[k].text /= << >> /\ IsString(line[k].text)

\* A step of the reader thread on any chunk: a read cycle ends with the
\* thread about to update the buffer, with strings in its accumulator and its
\* lines; the update puts the partial line last into the buffer and goes back
\* to read; the loop is left only from read, by the step that reads nothing.
PumpGoesOn ==
  /\ \A chunk \in HostileChunks :
       PumpRead(chunk) =>
         /\ pump_pc' = "update" /\ alive'
         /\ IsString(partial')
         /\ IsLine(partial_line') /\ \A k \in 1..Len(complete') : IsLine(complete'[k])
  /\ (pump_pc = "update" /\ pump_pc' /= "update") =>
       /\ pump_pc' = "read" /\ alive'
       /\ lines' /= << >> /\ lines'[Len(lines')] = partial_line
  /\ (pump_pc \in { "read", "update" } /\ pump_pc' \in { "exit", "done" }) =>
       /\ pump_pc = "read" /\ pump_pc' = "exit"
       /\ UNCHANGED << pump_locals, shared_vars, reads >>

\* C25: whatever bytes a read returns, the read cycle completes, the buffer
\* is updated and the thread goes back to read; the loop is left only when a
\* read returns EOF or an error, and the session is alive until then.
C25_NoChunkStopsThePump ==
  /\ [](pump_pc \in { "read", "update" } => alive)
  /\ [][PumpGoesOn]_vars
  /\ (pump_pc = "update" ~> pump_pc = "read")

\* The thread is back in read after three reads: an invalid byte, a CSI
\* without its final byte, and a malformed SGR sequence that ends the line.
C25_Witness ==
  /\ pump_pc = "read" /\ reads = 3 /\ alive /\ Len(lines) = 2
  /\ plain_text(lines[1]) = << REPLACEMENT >>
  /\ lines[2] = << >>

(***************************************************************************)
(* The snapshot for the assistant                                          *)
(***************************************************************************)
\* C26: visible_text(n) is the plain text of the last min(n, line count)
\* lines of the buffer in their order, with one '\n' between two lines and
\* none after the last; it is empty for an empty buffer and for n = 0.
C26_VisibleTextIsLastLines ==
  (probe.op = "visible_text" /\ probe.done) =>
    LET l == as_lines(probe.in.specs)
        k == Min(probe.in.last_n, Len(l))
        piece(i) == row_text(l[Len(l) - k + i]) \o (IF i < k THEN << LF >> ELSE << >>)
    IN  /\ probe.out = concat([i \in 1..k |-> piece(i)])
        /\ (l = << >> \/ probe.in.last_n = 0) => probe.out = << >>

\* The last two lines of a buffer of three, the second of them in two runs.
C26_Witness ==
  /\ probe.op = "visible_text" /\ probe.done /\ probe.in.last_n = 2
  /\ probe.in.specs = << << << 97 >>, 0 >>, << << >>, 0 >>, << << 233, 98 >>, 1 >> >>
  /\ probe.out = << LF, 233, 98 >>

\* More lines asked for than the buffer holds.
C26_WitnessAll ==
  /\ probe.op = "visible_text" /\ probe.done /\ probe.in.last_n = 4
  /\ Len(probe.in.specs) = 2 /\ probe.out = << 97, LF, 97 >>

(***************************************************************************)
(* Staged commands and paste                                               *)
(***************************************************************************)
\* What a step wrote to the pty.
Written == SubSeq(pty_out', Len(pty_out) + 1, Len(pty_out'))

\* A step wrote the UTF-8 bytes of text, after what was written before, and
\* left the buffer, the selection and the scroll position alone.
WroteVerbatim(text) ==
  /\ Len(pty_out') = Len(pty_out) + utf8_bytes(text)
  /\ SubSeq(pty_out', 1, Len(pty_out)) = pty_out
  /\ from_utf8_lossy(Written) = text
  /\ UNCHANGED << lines, selection, scroll_offset >>

VerbatimInput ==
  /\ \A text \in InputTexts : SendString(text) => WroteVerbatim(text)
  /\ CtrlV => WroteVerbatim(IF has_clipboard THEN clipboard ELSE << >>)

\* C27: send_string(text) and paste write the UTF-8 bytes of the text in
\* their order and nothing else, no line terminator in particular, and
\* change neither the buffer nor the selection nor the scroll position.
C27_InputIsVerbatim == [][VerbatimInput]_vars

\* "ls" has been staged while a selection was held and the view was
\* scrolled: the pty holds "ls" and no more.
C27_Witness ==
  /\ pty_out = << 108, 115 >> /\ ui_pc = "draw"
  /\ lines /= << >> /\ selection /= None /\ scroll_offset > 0

\* The clipboard's "\u{20ac}\u{1f600}" has been pasted: seven bytes.
C27_WitnessPaste ==
  /\ has_clipboard /\ clipboard = << 8364, 128512 >>
  /\ pty_out = << 226, 130, 172, 240, 159, 152, 128 >> /\ ui_pc = "draw"

(***************************************************************************)
(* A clear inside an escape sequence                                       *)
(***************************************************************************)
\* The text of the line is made of the char "h" alone.
OnlyH(line) == \A k \in 1..Len(plain_text(line)) : plain_text(line)[k] = 104

\* C28: of a stream whose only visible char is "h", with a clear observed at
\* any point, an escape sequence under way included, no other char becomes
\* visible text: not in the lines the reader thread produces and not in the
\* buffer.
C28_ClearInsideEscapeIsClean ==
  /\ \A k \in 1..Len(lines) : OnlyH(lines[k])
  /\ \A k \in 1..Len(complete) : OnlyH(complete[k])
  /\ OnlyH(partial_line)

\* The reader thread observed the clear with "\x1b[3" in its accumulator.
C28_Witness ==
  /\ cleared /\ ~clear_signal /\ pump_pc = "update"
  /\ stream[2] = 91 /\ fed = Len(stream) /\ reads = 2
  /\ plain_text(complete[1]) = << 49, 109, 104 >>

(***************************************************************************)
(* Line splitting                                                          *)
(***************************************************************************)
\* The bytes of the stream the reader thread has read so far.
Fed == SubSeq(stream, 1, fed)

\* The number of line feeds in the bytes.
RECURSIVE CountLF(_)
CountLF(bytes) ==
  IF bytes = << >> THEN 0
  ELSE (IF Head(bytes) = LF THEN 1 ELSE 0) + CountLF(Tail(bytes))

\* The k-th piece (from 1) of the bytes cut at each line feed, the line feeds
\* left out.
RECURSIVE Piece(_, _)
Piece(bytes, k) ==
  LET pos == IF \E j \in 1..Len(bytes) : bytes[j] = LF
             THEN CHOOSE j \in 1..Len(bytes) :
                    bytes[j] = LF /\ \A i \in 1..(j - 1) : bytes[i] /= LF
             ELSE Len(bytes) + 1
  IN  IF k = 1 THEN SubSeq(bytes, 1, pos - 1)
      ELSE Piece(SubSeq(bytes, pos + 1, Len(bytes)), k - 1)

\* The bytes without their carriage returns.
RECURSIVE WithoutCR(_)
WithoutCR(bytes) ==
  IF bytes = << >> THEN << >>
  ELSE (IF Head(bytes) = CR THEN << >> ELSE << Head(bytes) >>)
         \o WithoutCR(Tail(bytes))

IsAscii(bytes) == \A k \in 1..Len(bytes) : bytes[k] < 128

\* C29: in a fresh session nobody cleared, after at least one read cycle over
\* bytes holding n line feeds, n + 1 within the capacity, the buffer holds
\* n + 1 lines however the bytes were divided into reads: the n completed
\* lines in arrival order and then the partial line; a carriage return
\* neither starts nor ends a line and is in no line's text.
C29_LineFeedAloneSplits ==
  (pump_pc = "read" /\ reads >= 1 /\ ~cleared /\ CountLF(Fed) + 1 <= MAX_LINES)
    => /\ Len(lines) = CountLF(Fed) + 1
       /\ \A k \in 1..Len(lines) :
            /\ \A j \in 1..Len(plain_text(lines[k])) :
                 plain_text(lines[k])[j] /= CR
            /\ IsAscii(Fed) => plain_text(lines[k]) = WithoutCR(Piece(Fed, k))

\* "a\r\nb\rc\nd" has been read in three reads: the lines "a", "bc", "d".
C29_Witness ==
  /\ pump_pc = "read" /\ reads = 3 /\ ~cleared /\ fed = Len(stream)
  /\ stream = << 97, CR, LF, 98, CR, 99, LF, 100 >>
  /\ Len(lines) = 3
  /\ plain_text(lines[1]) = << 97 >> /\ plain_text(lines[2]) = << 98, 99 >>
  /\ plain_text(lines[3]) = << 100 >>

\* "\r\n\r" has been read a byte at a time: an empty line and an empty
\* partial line.
C29_WitnessEmpty ==
  /\ pump_pc = "read" /\ reads = 3 /\ fed = Len(stream)
  /\ stream = << CR, LF, CR >> /\ Len(lines) = 2
  /\ plain_text(lines[1]) = << >> /\ plain_text(lines[2]) = << >>

(***************************************************************************)
(* Backspace                                                               *)
(***************************************************************************)
IsSgr(token) == Len(token) >= 3 /\ token[1] = ESC /\ token[2] = 91
                  /\ token[Len(token)] = 109

\* The visible chars of the pieces that a backspace can still reach: those
\* appended after the last SGR sequence and not removed since.
RECURSIVE Reachable(_)
Reachable(ts) ==
  IF ts = << >> THEN << >>
  ELSE LET t    == ts[Len(ts)]
           rest == Reachable(SubSeq(ts, 1, Len(ts) - 1))
       IN  IF IsSgr(t) THEN << >>
           ELSE IF t = << BS >>
             THEN (IF rest = << >> THEN rest ELSE SubSeq(rest, 1, Len(rest) - 1))
           ELSE IF t[1] \in { ESC, CR } THEN rest
           ELSE rest \o t

\* The text without its last char.
Front(text) == SubSeq(text, 1, Len(text) - 1)

\* A backspace at the start of the next line leaves the line before it as it
\* was.
PreviousLineKept ==
  /\ Len(probe.out.next) = 2
  /\ plain_text(probe.out.next[1]) = plain_text(probe.out.before)
  /\ plain_text(probe.out.next[2]) = << >>

C30_WitnessSgr ==
  /\ probe.op = "backspace" /\ probe.done
  /\ probe.in = << << 97 >>, << ESC, 91, 51, 49, 109 >> >>
  /\ plain_text(probe.out.before) = << 97 >>
  /\ plain_text(probe.out.after) = << 97 >>

(***************************************************************************)
(* SGR parameters that are no recognised code                              *)
(***************************************************************************)
\* The value of a parameter written in decimal digits; -1 when it is empty
\* or above 255.
RECURSIVE DecValue(_)
DecValue(piece) ==
  IF piece = << >> THEN 0
  ELSE 10 * DecValue(SubSeq(piece, 1, Len(piece) - 1)) + (piece[Len(piece)] - 48)

ParamValue(piece) ==
  IF piece = << >> \/ DecValue(piece) > 255 THEN -1 ELSE DecValue(piece)

\* The numbers the SGR table defines.
Recognised ==
  (0..9) \cup { 22, 23, 24, 25, 27, 28, 29 } \cup (30..49) \cup (90..97)
    \cup (100..107)

\* The effect of a code of the table that takes no argument, written from
\* the table.
TableColors ==
  << "Black", "Red", "Green", "Yellow", "Blue", "Magenta", "Cyan", "White" >>
TableBright ==
  << "DarkGray", "LightRed", "LightGreen", "LightYellow", "LightBlue",
     "LightMagenta", "LightCyan", "Gray" >>
TableSets ==
  [c \in 1..9 |-> << "BOLD", "DIM", "ITALIC", "UNDERLINED", "SLOW_BLINK",
                     "SLOW_BLINK", "REVERSED", "HIDDEN", "CROSSED_OUT" >>[c]]
TableClears ==
  [c \in { 22, 23, 24, 25, 27, 28, 29 } |->
     CASE c = 22 -> { "BOLD", "DIM" } [] c = 23 -> { "ITALIC" }
       [] c = 24 -> { "UNDERLINED" }  [] c = 25 -> { "SLOW_BLINK" }
       [] c = 27 -> { "REVERSED" }    [] c = 28 -> { "HIDDEN" }
       [] c = 29 -> { "CROSSED_OUT" }]
TableStep(c, state) ==
  IF c = 0 THEN [fg |-> << "None" >>, bg |-> << "None" >>, modifiers |-> {}]
  ELSE IF c \in 1..9 THEN [state EXCEPT !.modifiers = @ \cup { TableSets[c] }]
  ELSE IF c \in DOMAIN TableClears
    THEN [state EXCEPT !.modifiers = @ \ TableClears[c]]
  ELSE IF c \in 30..37 THEN [state EXCEPT !.fg = << TableColors[c - 29] >>]
  ELSE IF c = 39 THEN [state EXCEPT !.fg = << "None" >>]
  ELSE IF c \in 40..47 THEN [state EXCEPT !.bg = << TableColors[c - 39] >>]
  ELSE IF c = 49 THEN [state EXCEPT !.bg = << "None" >>]
  ELSE IF c \in 90..97 THEN [state EXCEPT !.fg = << TableBright[c - 89] >>]
  ELSE IF c \in 100..107 THEN [state EXCEPT !.bg = << TableBright[c - 99] >>]
  ELSE state

\* The parameters interpreted each in its place: a parameter that is no
\* recognised code is skipped where it stands, as a code and as a colour
\* argument (the colour form it is an argument of then sets nothing), and
\* every other parameter keeps the role its place gives it.
RECURSIVE InPlace(_, _, _)
InPlace(ps, i, state) ==
  IF i > Len(ps) THEN state
  ELSE LET c   == ParamValue(ps[i])
           v(k) == ParamValue(ps[k])
           set(col) == IF c = 38 THEN [state EXCEPT !.fg = col]
                                 ELSE [state EXCEPT !.bg = col]
       IN  IF c \in { 38, 48 }
             THEN IF i + 2 <= Len(ps) /\ v(i + 1) = 5
                    THEN InPlace(ps, i + 3,
                           IF v(i + 2) = -1 THEN state
                           ELSE set(<< "Indexed", v(i + 2) >>))
                  ELSE IF i + 4 <= Len(ps) /\ v(i + 1) = 2
                    THEN InPlace(ps, i + 5,
                           IF -1 \in { v(i + 2), v(i + 3), v(i + 4) } THEN state
                           ELSE set(<< "Rgb", v(i + 2), v(i + 3), v(i + 4) >>))
                  ELSE InPlace(ps, i + 1, state)
           ELSE InPlace(ps, i + 1, IF c = -1 THEN state ELSE TableStep(c, state))

\* The parameters that are a number of 0..255.
Numbers(ps) == SelectSeq(ps, LAMBDA piece : ParamValue(piece) /= -1)

\* The sequence is "\x1b[m" or "\x1b[0m".
IsReset(ps) == ps \in { << << >> >>, << << 48 >> >> }

SgrCalled == probe.op = "apply_sgr" /\ probe.done

C31_WitnessAlone ==
  /\ SgrCalled
  /\ probe.in.pieces = << << >>, << 51, 48, 48 >>, << 49, 48 >> >>
  /\ probe.in.state.modifiers = { "BOLD", "ITALIC" }
  /\ probe.out = probe.in.state

(***************************************************************************)
(* The SGR table                                                           *)
(***************************************************************************)
\* The numbers of the parameters.
Values(ps) == [k \in 1..Len(ps) |-> ParamValue(ps[k])]

\* The codes without argument applied one after the other.
RECURSIVE Steps(_, _)
Steps(cs, state) ==
  IF cs = << >> THEN state ELSE Steps(Tail(cs), TableStep(Head(cs), state))

\* Numbers of the table none of which is 38 or 48.
Simple(cs) == \A k \in 1..Len(cs) : cs[k] \in Recognised \ { 38, 48 }

\* The state with the colour as foreground (38) or background (48).
WithColor(s, state, col) ==
  IF s = 38 THEN [state EXCEPT !.fg = col] ELSE [state EXCEPT !.bg = col]

\* The list is the indexed form and codes after it.
IsIndexedForm(cs) ==
  /\ Len(cs) >= 3 /\ cs[1] \in { 38, 48 } /\ cs[2] = 5 /\ cs[3] \in 0..255
  /\ Simple(SubSeq(cs, 4, Len(cs)))

\* The list is the true-colour form and codes after it.
IsRgbForm(cs) ==
  /\ Len(cs) >= 5 /\ cs[1] \in { 38, 48 } /\ cs[2] = 2
  /\ \A k \in 3..5 : cs[k] \in 0..255
  /\ Simple(SubSeq(cs, 6, Len(cs)))

\* The list is a form cut short: 38 or 48 alone, with the selector 5 and no
\* index, or with the selector 2 and fewer than three components.
IsCutShort(cs) ==
  /\ Len(cs) >= 1 /\ cs[1] \in { 38, 48 }
  /\ \/ Len(cs) = 1
     \/ Len(cs) = 2 /\ cs[2] = 5
     \/ Len(cs) \in 2..4 /\ cs[2] = 2 /\ \A k \in 3..Len(cs) : cs[k] \in { 1, 2 }

\* The table for the lists that are not cut short: the reset, the codes
\* without argument one after the other, and the two colour forms, which
\* consume two resp. four parameters and leave the codes after them to be
\* applied as usual.
TableHolds ==
  LET cs == Values(probe.in.pieces)
      s  == probe.in.state
  IN  /\ IsReset(probe.in.pieces) => probe.out = TableStep(0, s)
      /\ (~IsReset(probe.in.pieces) /\ Simple(cs)) => probe.out = Steps(cs, s)
      /\ IsIndexedForm(cs)
           => probe.out = Steps(SubSeq(cs, 4, Len(cs)),
                                WithColor(cs[1], s, << "Indexed", cs[3] >>))
      /\ IsRgbForm(cs)
           => probe.out = Steps(SubSeq(cs, 6, Len(cs)),
                                WithColor(cs[1], s, << "Rgb", cs[3], cs[4], cs[5] >>))

C32_WitnessCutShort ==
  /\ SgrCalled /\ probe.in.pieces = AsParams(<< 38, 5 >>)
  /\ probe.in.state.modifiers = {} /\ probe.out.modifiers = { "SLOW_BLINK" }
  /\ probe.out.fg = probe.in.state.fg

\* "22" on bold and italic: italic alone is left.
C32_WitnessClear ==
  /\ SgrCalled /\ probe.in.pieces = AsParams(<< 22 >>)
  /\ probe.in.state.modifiers = { "BOLD", "ITALIC" }
  /\ probe.out.modifiers = { "ITALIC" }

(***************************************************************************)
(* Sequences without meaning                                               *)
(***************************************************************************)
\* A complete CSI sequence whose final byte, the first letter after "\x1b[",
\* is not 'm'.
IsOtherCsi(token) ==
  /\ Len(token) >= 3 /\ token[1] = ESC /\ token[2] = 91
  /\ token[Len(token)] \in (65..90) \cup (97..122) /\ token[Len(token)] /= 109
  /\ \A k \in 3..(Len(token) - 1) : token[k] \notin (65..90) \cup (97..122)

\* A complete OSC sequence: closed by BEL or by ESC and '\'.
IsOsc(token) ==
  /\ Len(token) >= 3 /\ token[1] = ESC /\ token[2] = 93
  /\ \/ token[Len(token)] = BEL
     \/ Len(token) >= 4 /\ token[Len(token) - 1] = ESC /\ token[Len(token)] = 92

\* C33: a complete CSI sequence whose final byte is not 'm' and a complete
\* OSC sequence have no effect: the spans and the state the parser gives for
\* the input are those it gives for the input without the sequence, the
\* chars next to the sequence being ordinary text of one run.
C33_SequenceWithoutEffect ==
  (probe.op = "frame" /\ probe.done)
    => \A k \in 1..Len(probe.in.tokens) :
         (IsOtherCsi(probe.in.tokens[k]) \/ IsOsc(probe.in.tokens[k]))
           => probe.out.less[k] = probe.out.whole

\* "a", "\x1b]0\x1b\\", "a" from the default state: one run "aa".
C33_Witness ==
  /\ probe.op = "frame" /\ probe.done
  /\ probe.in.tokens = << << 97 >>, << ESC, 93, 48, ESC, 92 >>, << 97 >> >>
  /\ probe.in.state = AnsiDefault
  /\ Len(probe.out.whole.spans) = 1
  /\ probe.out.whole.spans[1].text = << 97, 97 >>
  /\ probe.out.whole.state = AnsiDefault

\* "\x1b[31m", "\x1b[?25l", "a": the "a" is red.
C33_WitnessCsi ==
  /\ probe.op = "frame" /\ probe.done
  /\ probe.in.tokens = << << ESC, 91, 51, 49, 109 >>,
                          << ESC, 91, 63, 50, 53, 108 >>, << 97 >> >>
  /\ plain_text(probe.out.whole.spans) = << 97 >>
  /\ probe.out.whole.state.fg = << "Red" >>

(***************************************************************************)
(* The visual row map                                                      *)
(***************************************************************************)
\* The rows of the lines from the 0-based index k on, each as the pair of
\* its line index and the offset its text starts at.
RECURSIVE RowsFrom(_, _, _)
RowsFrom(l, k, width) ==
  IF k >= Len(l) THEN << >>
  ELSE LET rows == wrap_spans(l[k + 1], width)
       IN  [r \in 1..Len(rows) |-> << k, rows[r].start >>]
             \o RowsFrom(l, k + 1, width)

\* The rows a render pass with this inner rectangle displays.
Displayed(inner) ==
  LET all == RowsFrom(lines, last_render_start', Max(inner.width, 1))
  IN  SubSeq(all, 1, Min(Len(all), inner.height))

RenderedMap(inner) ==
  LET m == last_visual_row_map'
      H == inner.height
  IN  /\ Len(m) <= H
      /\ m = Displayed(inner)
      /\ \A i, j \in 1..Len(m) :
           i < j => \/ m[i][1] < m[j][1]
                    \/ m[i][1] = m[j][1] /\ m[i][2] < m[j][2]
      /\ \A i \in 1..Len(m) :
           m[i][1] >= last_render_start' /\ m[i][1] < Len(lines)
      /\ 0 <= last_render_start' /\ last_render_start' <= Len(lines)
      /\ scroll_offset' <= Max(0, Len(lines) - H)
      /\ last_render_start' = Max(0, Len(lines) - H) - scroll_offset'

MapAfterRender == \A inner \in ViewInners : Render(inner) => RenderedMap(inner)

\* C34: after a render pass with viewport height H the row map has at most H
\* entries, the i-th being the line index and the row start offset of the
\* i-th displayed row, ordered by line and then by offset, every line index
\* from the first line in view on and below the buffer length; the first
\* line in view lies within 0..length and the scroll offset is at most
\* max(0, length - H).
C34_RowMapMatchesDisplay == [][MapAfterRender]_vars

\* Scrolled up by one line with two rows of two columns: the rows in view
\* are the two rows of "bcd".
C34_Witness ==
  /\ ui_pc = "event" /\ last_inner = Rect(1, 1, 2, 2)
  /\ scroll_offset = 1 /\ Len(lines) = 3 /\ last_render_start = 0
  /\ last_visual_row_map = << << 0, 0 >>, << 1, 0 >> >>

\* A line of three chars takes two rows of the map.
C34_WitnessWrapped ==
  /\ ui_pc = "event" /\ last_inner = Rect(1, 1, 2, 2) /\ scroll_offset = 0
  /\ last_visual_row_map = << << 1, 0 >>, << 1, 2 >> >>

(***************************************************************************)
(* The newest line in view                                                 *)
(***************************************************************************)
\* The newest line of the buffer has a row in the map the pass stores.
NewestInMap ==
  \E i \in 1..Len(last_visual_row_map') :
    last_visual_row_map'[i][1] = Len(lines) - 1

NewestAfterRender ==
  \A inner \in ViewInners :
    (Render(inner) /\ inner.height >= 1 /\ scroll_offset = 0 /\ lines /= << >>)
      => NewestInMap

\* C35: a render pass with scroll offset 0, a buffer that is not empty and a
\* viewport of at least one row has the newest line of the buffer among the
\* rows it displays and in the row map, whatever the width and the length
\* of the lines in view.
C35_NewestLineDisplayed == [][NewestAfterRender]_vars

\* "a\nbcd\n" has been read and rendered in two rows of two columns without
\* scrolling: both rows belong to "bcd", the line after it has none.
C35_Witness ==
  /\ ui_pc = "event" /\ scroll_offset = 0 /\ last_inner = Rect(1, 1, 2, 2)
  /\ pump_pc = "read" /\ reads = 1 /\ Len(lines) = 3
  /\ plain_text(lines[2]) = << 98, 99, 100 >>
  /\ last_render_start = 1
  /\ \A i \in 1..Len(last_visual_row_map) : last_visual_row_map[i][1] /= 2

(***************************************************************************)
(* A selection while the reader thread appends                             *)
(***************************************************************************)
\* The selection is active and its range ends before the last entry of the
\* buffer, the partial line.
SelectionBelowPartial ==
  /\ selection /= None /\ lines /= << >>
  /\ selection_range(selection)[2][1] < Len(lines) - 1

SelectionTextKept ==
  (PumpUpdate /\ SelectionBelowPartial)
    => selected_text(lines', selection) = selected_text(lines, selection)

\* C36: while a selection is active and does not include the partial line,
\* no buffer update of the reader thread changes the text selected_text
\* returns for it, the updates that evict lines at MAX_LINES included.
C36_SelectionTextStable == [][SelectionTextKept]_vars

\* "\u{e9}a" and the start of "bcd" were selected, and an update since has
\* evicted "\u{e9}a": the same positions now select "a" and the line end.
C36_Witness ==
  /\ selection = << << 0, 0 >>, << 1, 0 >> >> /\ pump_pc = "read" /\ reads = 3
  /\ Len(lines) = MAX_LINES /\ Len(appended) = 4
  /\ plain_text(appended[1]) = << 233, 97 >>
  /\ plain_text(lines[1]) = << 97 >>
  /\ selected_text(lines, selection) = << 97, LF >>

(***************************************************************************)
(* The slices selected_text takes                                          *)
(***************************************************************************)
\* The ends of the slice selected_text takes of the line with the 0-based
\* index li, for the range from start to end that stops at end_line.
SliceEnds(l, start, end, end_line, li) ==
  LET text == plain_text(l[li + 1])
  IN  [len  |-> str_len(text),
       from |-> floor_boundary(text, IF li = start[1]
                                       THEN Min(start[2], str_len(text)) ELSE 0),
       to   |-> ceil_boundary(text, IF li = end_line
                                      THEN Min(end[2], str_len(text))
                                      ELSE str_len(text)),
       text |-> text]

SlicesInRange(l, sel) ==
  LET r == selection_range(sel)
  IN  r[1][1] < Len(l)
        => LET end_line == Min(r[2][1], Len(l) - 1)
           IN  \A li \in r[1][1]..end_line :
                 LET s == SliceEnds(l, r[1], r[2], end_line, li)
                 IN  /\ 0 <= s.from /\ s.from <= s.to /\ s.to <= s.len
                     /\ is_char_boundary(s.text, s.from)
                     /\ is_char_boundary(s.text, s.to)

\* C37: whatever selection is stored and whatever the buffer holds since
\* (appends, replaced partial lines, evictions, a cleared buffer),
\* selected_text takes no slice that is out of range, inverted or off a char
\* boundary, and returns no result or a text.
C37_SlicesInRange ==
  selection /= None
    => /\ SlicesInRange(lines, selection)
       /\ selected_text(lines, selection) /= PANIC

\* The selection was made at bytes 1 and 2 of "bc"; evictions have since put
\* "\u{e9}" at that index: the slice is widened to the whole char.
C37_Witness ==
  /\ selection = << << 0, 1 >>, << 0, 2 >> >>
  /\ Len(lines) = MAX_LINES /\ plain_text(lines[1]) = << 233 >>
  /\ selected_text(lines, selection) = << 233 >>

\* The selection starts in a line an eviction has since made shorter than
\* the offset.
C37_WitnessClamped ==
  /\ selection /= None /\ lines /= << >>
  /\ selection[1][1] < Len(lines)
  /\ selection[1][2] > str_len(plain_text(lines[selection[1][1] + 1]))
  /\ Len(appended) >= MAX_LINES

(***************************************************************************)
(* Reads that end inside a char                                            *)
(***************************************************************************)
\* C38: once a stream of bytes has been read completely, the reads ending at
\* any byte, inside a char of several bytes included, the buffer (texts and
\* styles of all lines) is the one a single read of the whole stream gives.
C38_ByteChunkInvariance ==
  (fed > 0 /\ fed = Len(stream) /\ pump_pc = "read")
    => lines = one_read(stream).lines

\* "a\u{e9}\nb" has been read as "a\xc3" and "\xa9\nb": the first line is
\* "a" and two replacement chars.
C38_Witness ==
  /\ stream = << 97, 195, 169, LF, 98 >> /\ fed = Len(stream) /\ reads = 2
  /\ pump_pc = "read" /\ Len(lines) = 2
  /\ plain_text(lines[1]) = << 97, REPLACEMENT, REPLACEMENT >>
  /\ plain_text(one_read(stream).lines[1]) = << 97, 233 >>

\* ---------------------------------------------------------------------
\* The assistant tab: tool calls, their confirmation and auto-approve.
\* The texts of the conversation (history, rich_history) and the
\* suggestions are left out: the replies drawn here carry no code block,
\* so no suggestion is ever offered.

\* The commands a tool call may ask for, and the events a completion
\* thread may send (LLMEvent).
ToolCommands == { "ls", "pwd" }
LLMEvents ==
  { [kind |-> k, command |-> ""] : k \in { "Response", "Error" } }
    \cup { [kind |-> "ToolCall", command |-> c] : c \in ToolCommands }

\* The keys typed at the assistant tab, without modifiers.
LlmKeys == { "Enter", "Esc", "y", "a", "n" }

MaxRequests == 3
MaxInput == 2

\* spawn_completion_rich: one more thread that will send one event.
spawn_completion_rich(t) ==
  [t EXCEPT !.threads = @ + 1, !.spawned = @ + 1]

\* No command: confirm_tool_call returned None.
NoCommand == << >>

\* LLMTab::confirm_tool_call: the tab afterwards and the value returned,
\* << command >> for Some(command).
confirm_tool_call(t, accepted) ==
  IF t.pending_tool_call = None
    THEN [tab |-> t, ret |-> NoCommand]
    ELSE LET ptc   == t.pending_tool_call
             taken == [t EXCEPT !.pending_tool_call = None]
         IN IF accepted
              THEN [tab |-> [taken EXCEPT !.awaiting_output_id = << ptc[1] >>,
                                          !.waiting = TRUE,
                                          !.status = "Command sent - capturing output"],
                    ret |-> << ptc[2] >>]
              ELSE [tab |-> spawn_completion_rich(
                              [taken EXCEPT !.waiting = TRUE,
                                            !.status = "Declined - waiting for Claude"]),
                    ret |-> NoCommand]

\* One turn of the loop of LLMTab::poll, for the event just received.
\* The value confirm_tool_call returns under auto-approve is dropped.
poll_event(t, ev) ==
  CASE ev.kind = "Response" -> [t EXCEPT !.status = "Response received."]
    [] ev.kind = "ToolCall" ->
         LET asked == [t EXCEPT !.status = "Awaiting confirmation",
                                !.counter = @ + 1,
                                !.pending_tool_call = << t.counter, ev.command >>]
         IN IF asked.auto_approve THEN confirm_tool_call(asked, TRUE).tab ELSE asked
    [] OTHER -> [t EXCEPT !.status = "Error"]

\* LLMTab::poll: every event in the channel, in order.
RECURSIVE poll(_)
poll(t) ==
  IF t.rx = << >>
    THEN t
    ELSE poll(poll_event([t EXCEPT !.rx = Tail(@), !.waiting = FALSE], Head(t.rx)))

\* LLMTab::send_message
send_message(t, content) ==
  IF content = << >> \/ t.waiting
    THEN t
    ELSE spawn_completion_rich([t EXCEPT !.waiting = TRUE,
                                         !.status = "Waiting for response"])

\* LLMTab::resume_with_output
resume_with_output(t) ==
  IF t.awaiting_output_id = None
    THEN t
    ELSE spawn_completion_rich([t EXCEPT !.awaiting_output_id = None,
                                         !.waiting = TRUE,
                                         !.status = "Output captured - waiting for Claude"])

\* Action::SendToTerminal(cmd)
SendToTerminal(cmd) == [action |-> "SendToTerminal", command |-> cmd]

\* handle_event returns Action::SendToTerminal for the value of
\* confirm_tool_call when there is one, and Action::None otherwise.
returning(r) ==
  IF r.ret = NoCommand
    THEN r.tab
    ELSE [r.tab EXCEPT !.actions = Append(@, SendToTerminal(r.ret[1]))]

\* LLMTab::handle_event for a key without modifiers: the confirmation
\* keys while a tool call is pending, the text input otherwise.
LLMTab_handle_event(t, code) ==
  IF t.pending_tool_call /= None
    THEN CASE code \in { "Enter", "y" } -> returning(confirm_tool_call(t, TRUE))
           [] code = "a" ->
                returning(confirm_tool_call([t EXCEPT !.auto_approve = TRUE], TRUE))
           [] OTHER -> confirm_tool_call(t, FALSE).tab
    ELSE CASE code = "Enter" -> send_message([t EXCEPT !.input = << >>], t.input)
           [] code = "Esc" -> [t EXCEPT !.input = << >>]
           [] OTHER -> [t EXCEPT !.input = Append(@, code)]

LlmUnchanged ==
  UNCHANGED << pump_vars, shared_vars, tab_vars, ui_pc, crashed, hist_vars,
               stream, fed, probe, locks, app >>

\* A key event reaches the focused assistant tab.
LlmKey(code) ==
  /\ app.state = "Connected" /\ app.focus = "LLM" /\ app.error = None
  /\ llm_tab.spawned < MaxRequests
  /\ Len(llm_tab.input) < MaxInput \/ code \in { "Enter", "Esc" }
       \/ llm_tab.pending_tool_call /= None
  /\ llm_tab' = LLMTab_handle_event(llm_tab, code)
  /\ LlmUnchanged

\* A frame is drawn: LLMTab::render starts with poll.
LlmRender ==
  /\ app.state = "Connected"
  /\ llm_tab' = poll(llm_tab)
  /\ LlmUnchanged

\* A completion thread ends: it sends its one event.
Complete(ev) ==
  /\ llm_tab.threads > 0
  /\ llm_tab' = [llm_tab EXCEPT !.threads = @ - 1, !.rx = Append(@, ev)]
  /\ LlmUnchanged

\* The output of the command was captured: resume_with_output is called.
Resume ==
  /\ llm_tab.awaiting_output_id /= None
  /\ llm_tab.spawned < MaxRequests
  /\ llm_tab' = resume_with_output(llm_tab)
  /\ LlmUnchanged

InitLlm ==
  /\ InitSession /\ stream = << >> /\ fed = 0 /\ probe = NoProbe /\ locks = NoLocks
  /\ app = cycle_focus(AppConnected) /\ llm_tab = LLMTab_new

NextLlm ==
  \/ \E code \in LlmKeys : LlmKey(code)
  \/ LlmRender
  \/ \E ev \in LLMEvents : Complete(ev)
  \/ Resume

SpecLlm == InitLlm /\ [][NextLlm]_vars

\* The commands of the tool calls among the events, in order.
RECURSIVE CalledIn(_)
CalledIn(rx) ==
  IF rx = << >> THEN << >>
  ELSE (IF Head(rx).kind = "ToolCall" THEN << SendToTerminal(Head(rx).command) >>
        ELSE << >>) \o CalledIn(Tail(rx))

\* A frame polls tool calls while auto-approve is active.
AutoApproving ==
  /\ llm_tab.auto_approve /\ CalledIn(llm_tab.rx) /= << >>
  /\ llm_tab'.rx = << >>

\* No prompt is left pending and the tab waits for the output.
WaitsWithoutPrompt ==
  AutoApproving =>
    /\ llm_tab'.pending_tool_call = None
    /\ llm_tab'.awaiting_output_id /= None /\ llm_tab'.waiting

\* The commands are emitted as send-to-terminal actions.
ForwardedToTerminal ==
  AutoApproving => llm_tab'.actions = llm_tab.actions \o CalledIn(llm_tab.rx)

\* C39 (in part): under auto-approve an arriving tool call leaves no
\* confirmation prompt pending, and the tab waits for captured output.
C39_AutoApproveWaits == [][WaitsWithoutPrompt]_vars

\* C39: under auto-approve an arriving tool call executes without asking:
\* its command is emitted as a send-to-terminal action, as for a manually
\* confirmed call, no prompt is left pending and the tab waits for the
\* captured output.
C39_AutoApproveForwards == [][ForwardedToTerminal /\ WaitsWithoutPrompt]_vars

\* 'a' confirmed the first tool call and sent its command; the second
\* tool call was approved by poll, the tab waits for its output, and no
\* second action was returned.
C39_Witness ==
  /\ llm_tab.auto_approve /\ llm_tab.counter = 3 /\ llm_tab.rx = << >>
  /\ llm_tab.pending_tool_call = None /\ llm_tab.awaiting_output_id = << 2 >>
  /\ llm_tab.waiting /\ llm_tab.status = "Command sent - capturing output"
  /\ llm_tab.actions = << SendToTerminal("ls") >>

\* ---------------------------------------------------------------------
\* The application and its session together: connecting makes a new
\* TerminalTab (an empty buffer, a reader thread with the default style
\* state, the alive flag set) and a new LLMTab; the reader thread of the
\* session reads, updates the buffer and ends.

\* What the remote sends in this specification: "\x1b[31ma\n".
LifeChunk == << ESC, 91, 51, 49, 109, 97, LF >>

\* TerminalTab::connect returned Ok and LLMTab::new was called.
SessionStarts ==
  /\ lines' = << >> /\ alive' = TRUE /\ clear_signal' = FALSE
  /\ pump_pc' = "read" /\ partial' = << >> /\ partial_in_buf' = FALSE
  /\ ansi_state' = AnsiDefault /\ complete' = << >> /\ partial_line' = << >>
  /\ scroll_offset' = 0 /\ selection' = None /\ last_render_start' = 0
  /\ last_inner' = RectDefault /\ last_visual_row_map' = << >>
  /\ pty_out' = << >> /\ pty_size' = << 40, 120 >>
  /\ reads' = 0 /\ tags' = << >> /\ appended' = << >> /\ cleared' = FALSE
  /\ mouse_phase' = "idle" /\ mark' = -1 /\ mark_evicted' = 0
  /\ llm_tab' = LLMTab_new
  /\ UNCHANGED << has_clipboard, clipboard, ui_pc, crashed >>

\* Enter on a connection of the listing: Sheesh::connect, and the new
\* session when it succeeds.
LifeConnect(name, outcome) ==
  /\ app.error = None /\ app.state = "Listing"
  /\ name \in app.listing
  /\ app.calls < MaxConnects
  /\ app' = Sheesh_connect(app, name, outcome)
  /\ IF TerminalTab_connect(outcome).ok
       THEN SessionStarts
       ELSE UNCHANGED << pump_vars, shared_vars, tab_vars, ui_pc, crashed,
                         hist_vars, llm_tab >>
  /\ UNCHANGED << stream, fed, probe, locks >>

\* The reader thread of the session that exists.
LifePump ==
  /\ app.terminal
  /\ PumpRead(LifeChunk) \/ PumpUpdate \/ PumpEof \/ PumpSetDead

InitLife == InitApp

NextLife ==
  \/ \E name \in HostNames, outcome \in ConnectOutcomes : LifeConnect(name, outcome)
  \/ DismissError
  \/ AppDisconnect
  \/ F2
  \/ LifePump

SpecLife == InitLife /\ [][NextLife]_vars

\* Connected, the session and the assistant's tab exist together.
ThreeTogether ==
  /\ app.state = "Connected" <=> app.terminal
  /\ app.state = "Connected" <=> app.llm

\* A session begins only with the Connected state and the assistant's tab,
\* on an empty buffer with the default style and the alive flag set.
CreatedTogether ==
  (~app.terminal /\ app'.terminal) =>
    /\ app'.state = "Connected" /\ app'.llm /\ ~app.llm
    /\ lines' = << >> /\ ansi_state' = AnsiDefault /\ alive'

\* The Connected state is left only by Ctrl+D in the terminal tab, which
\* removes the session and the assistant's tab with it.
RemovedTogether ==
  (app.state = "Connected" /\ app'.state /= "Connected") =>
    /\ ~app'.terminal /\ ~app'.llm
    /\ app.focus = "Terminal" /\ app.error = None

\* The end of the reader thread leaves the application as it is.
DeathLeavesConnected ==
  (alive /\ ~alive') => (app' = app /\ app.state = "Connected")

LifeSteps == CreatedTogether /\ RemovedTogether /\ DeathLeavesConnected

C40_WitnessReconnected ==
  /\ app.state = "Connected" /\ app.calls = 2 /\ app.threads = 2
  /\ lines = << >> /\ alive /\ ansi_state = AnsiDefault

\* Disconnected after a session: no session, no assistant tab.
C40_WitnessDisconnected ==
  /\ app.state = "Listing" /\ app.threads = 1 /\ app.error = None
  /\ ~app.terminal /\ ~app.llm

====
